---- MODULE Spec2Model ----
(***************************************************************************)
(* Model of the pocket CLI adapters: the Apple Contacts commands (osascript *)
(* invocation and delimiter parsing), the MyMemory translate command, the   *)
(* timezone commands, the WiFi commands and the real-estate REST clients.   *)
(*                                                                          *)
(* Strings are sequences of one-character strings, so that trimming,        *)
(* splitting, joining and case folding are computed character by character  *)
(* as the Go standard library does.                                         *)
(***************************************************************************)
EXTENDS Integers, Sequences, FiniteSets, TLC

VARIABLES
    \* translate: bestTranslation
    matches, btPc, btText, btScore,
    \* contacts: one runOsascript call after another
    osaPc, osaLang, ctxErr, runFailed, runErr, stdoutBuf, stderrBuf,
    spawns, children, killed, osaOut, osaFailed, osaErr, osaCallNo,
    \* contacts: parsing of the script output in list, search, groups, group, get
    pCmd, pArg, pLimit, pRecs, pErr, pResult, pPc, pOut,
    \* one run of a subcommand after another: the external calls it makes
    \* and what it prints
    cmd, goos, cpc, calls, resp, decoded, cOut, runNo,
    \* contacts list: the number of contacts the script is asked for
    lLimit, lTotal, lMax, lCount, lPc,
    \* one call of a pure helper function
    fnName, fnArg, fnRes, fnPc

btVars == <<matches, btPc, btText, btScore>>

osaVars == <<osaPc, osaLang, ctxErr, runFailed, runErr, stdoutBuf, stderrBuf,
             spawns, children, killed, osaOut, osaFailed, osaErr, osaCallNo>>

prsVars == <<pCmd, pArg, pLimit, pRecs, pErr, pResult, pPc, pOut>>

cmdVars == <<cmd, goos, cpc, calls, resp, decoded, cOut, runNo>>

lstVars == <<lLimit, lTotal, lMax, lCount, lPc>>

fnVars == <<fnName, fnArg, fnRes, fnPc>>

vars == <<btVars, osaVars, prsVars, cmdVars, lstVars, fnVars>>

notBT == <<osaVars, prsVars, cmdVars, lstVars, fnVars>>
notOsa == <<btVars, prsVars, cmdVars, lstVars, fnVars>>
notPrs == <<btVars, osaVars, cmdVars, lstVars, fnVars>>
notCmd == <<btVars, osaVars, prsVars, lstVars, fnVars>>
notLst == <<btVars, osaVars, prsVars, cmdVars, fnVars>>
notFn == <<btVars, osaVars, prsVars, cmdVars, lstVars>>

\* the parts of the state a specification does not use stay at these values
BTIdle ==
    /\ matches = <<>>
    /\ btPc = "off"
    /\ btText = <<>>
    /\ btScore = 0

OsaIdle ==
    /\ osaPc = "off"
    /\ osaLang = "none"
    /\ ctxErr = "none"
    /\ runFailed = FALSE
    /\ runErr = <<>>
    /\ stdoutBuf = <<>>
    /\ stderrBuf = <<>>
    /\ spawns = 0
    /\ children = 0
    /\ killed = FALSE
    /\ osaOut = <<>>
    /\ osaFailed = FALSE
    /\ osaErr = <<>>
    /\ osaCallNo = 0

PrsIdle ==
    /\ pCmd = "none"
    /\ pArg = <<>>
    /\ pLimit = 0
    /\ pRecs = <<>>
    /\ pErr = [raised |-> FALSE, msg |-> <<>>]
    /\ pResult = <<>>
    /\ pPc = "off"
    /\ pOut = [kind |-> "none"]

CmdIdle ==
    /\ cmd = "none"
    /\ goos = "none"
    /\ cpc = "off"
    /\ calls = <<>>
    /\ resp = [type |-> "none"]
    /\ decoded = FALSE
    /\ cOut = [kind |-> "none"]
    /\ runNo = 0

LstIdle ==
    /\ lLimit = 0
    /\ lTotal = 0
    /\ lMax = 0
    /\ lCount = 0
    /\ lPc = "off"

FnIdle ==
    /\ fnName = "none"
    /\ fnArg = <<>>
    /\ fnRes = <<>>
    /\ fnPc = "off"


----------------------------------------------------------------------------
(* String helpers (Go package strings)                                      *)

\* unicode.IsSpace restricted to the characters the model uses
IsSpace(c) == c \in {" ", "\n", "\t", "\r"}

LowerMap ==
    [A |-> "a", B |-> "b", C |-> "c", D |-> "d", E |-> "e", F |-> "f",
     G |-> "g", H |-> "h", I |-> "i", J |-> "j", K |-> "k", L |-> "l",
     M |-> "m", N |-> "n", O |-> "o", P |-> "p", Q |-> "q", R |-> "r",
     S |-> "s", T |-> "t", U |-> "u", V |-> "v", W |-> "w", X |-> "x",
     Y |-> "y", Z |-> "z"]

\* strings.ToLower
ToLower(s) ==
    [i \in 1..Len(s) |-> IF s[i] \in DOMAIN LowerMap THEN LowerMap[s[i]] ELSE s[i]]

RECURSIVE TrimLeftSpace(_)
TrimLeftSpace(s) ==
    IF s # <<>> /\ IsSpace(Head(s)) THEN TrimLeftSpace(Tail(s)) ELSE s

RECURSIVE TrimRightSpace(_)
TrimRightSpace(s) ==
    IF s # <<>> /\ IsSpace(s[Len(s)])
    THEN TrimRightSpace(SubSeq(s, 1, Len(s) - 1))
    ELSE s

\* strings.TrimSpace
TrimSpace(s) == TrimRightSpace(TrimLeftSpace(s))

\* strings.HasPrefix
HasPrefix(s, p) == Len(s) >= Len(p) /\ SubSeq(s, 1, Len(p)) = p

\* strings.HasSuffix
HasSuffix(s, p) ==
    Len(s) >= Len(p) /\ SubSeq(s, Len(s) - Len(p) + 1, Len(s)) = p

\* strings.TrimPrefix
TrimPrefix(s, p) == IF HasPrefix(s, p) THEN SubSeq(s, Len(p) + 1, Len(s)) ELSE s

\* strings.TrimSuffix
TrimSuffix(s, p) == IF HasSuffix(s, p) THEN SubSeq(s, 1, Len(s) - Len(p)) ELSE s

\* strings.Index: position (1-based) of the first occurrence of sep, 0 if none
RECURSIVE IndexFrom(_, _, _)
IndexFrom(s, sep, i) ==
    IF i + Len(sep) - 1 > Len(s) THEN 0
    ELSE IF SubSeq(s, i, i + Len(sep) - 1) = sep THEN i
    ELSE IndexFrom(s, sep, i + 1)

Index(s, sep) == IndexFrom(s, sep, 1)

\* strings.Contains
Contains(s, sub) == Index(s, sub) # 0

\* strings.SplitN for a non-empty separator: at most n pieces when n > 0,
\* all pieces when n < 0; matches are taken left to right, non-overlapping
RECURSIVE SplitN(_, _, _)
SplitN(s, sep, n) ==
    LET i == Index(s, sep) IN
    IF n = 1 \/ i = 0 THEN <<s>>
    ELSE <<SubSeq(s, 1, i - 1)>>
         \o SplitN(SubSeq(s, i + Len(sep), Len(s)), sep, IF n > 0 THEN n - 1 ELSE n)

\* strings.Split
Split(s, sep) == SplitN(s, sep, -1)

\* strings.Join / the scripts' join(sep) and text item delimiters
RECURSIVE Join(_, _)
Join(parts, sep) ==
    IF parts = <<>> THEN <<>>
    ELSE IF Len(parts) = 1 THEN parts[1]
    ELSE parts[1] \o sep \o Join(Tail(parts), sep)

\* strings.Replace(s, old, new, 1)
ReplaceFirst(s, old, new) ==
    LET i == Index(s, old) IN
    IF i = 0 THEN s
    ELSE SubSeq(s, 1, i - 1) \o new \o SubSeq(s, i + Len(old), Len(s))

----------------------------------------------------------------------------
(* translate: bestTranslation                                               *)

\* bound on the length of the matches array of one response
MaxMatches == 3

\* texts and scores the API may return in the matches array
MatchTexts == {<<"h", "i">>, <<"H", "i">>, <<"H", "I">>, <<"y", "o">>}
MatchScores == {1, 2}

MatchRecs == [Translation : MatchTexts, Match : MatchScores]

RECURSIVE SeqsUpTo(_, _)
SeqsUpTo(S, n) ==
    IF n = 0 THEN {<<>>}
    ELSE LET shorter == SeqsUpTo(S, n - 1) IN
         shorter \cup {Append(q, x) : q \in {r \in shorter : Len(r) = n - 1}, x \in S}

\* first loop of bestTranslation: the highest match score
RECURSIVE MaxFrom(_, _, _)
MaxFrom(ms, i, bestScore) ==
    IF i > Len(ms) THEN bestScore
    ELSE MaxFrom(ms, i + 1, IF ms[i].Match > bestScore THEN ms[i].Match ELSE bestScore)

RECURSIVE MinFrom(_, _, _)
MinFrom(ms, i, bestScore) ==
    IF i > Len(ms) THEN bestScore
    ELSE MinFrom(ms, i + 1, IF ms[i].Match < bestScore THEN ms[i].Match ELSE bestScore)

BestScoreOfMut(ms) == MinFrom(ms, 2, ms[1].Match)

BestScoreOf(ms) == MaxFrom(ms, 2, ms[1].Match)

\* second loop: counts[strings.ToLower(m.Translation)]++ at the best score
Counts(ms, bestScore, key) ==
    Cardinality({i \in 1..Len(ms) :
        ms[i].Match = bestScore /\ ToLower(ms[i].Translation) = key})

\* third loop: the first translation whose count is strictly the largest so far
RECURSIVE MostFrequentFrom(_, _, _, _, _)
MostFrequentFrom(ms, bestScore, i, bestTrans, bestCount) ==
    IF i > Len(ms) THEN bestTrans
    ELSE LET c == Counts(ms, bestScore, ToLower(ms[i].Translation)) IN
         IF ms[i].Match = bestScore /\ c > bestCount
         THEN MostFrequentFrom(ms, bestScore, i + 1, ms[i].Translation, c)
         ELSE MostFrequentFrom(ms, bestScore, i + 1, bestTrans, bestCount)

RECURSIVE LastMostFrequentFrom(_, _, _, _, _)
LastMostFrequentFrom(ms, bestScore, i, bestTrans, bestCount) ==
    IF i > Len(ms) THEN bestTrans
    ELSE LET c == Counts(ms, bestScore, ToLower(ms[i].Translation)) IN
         IF ms[i].Match = bestScore /\ c >= bestCount
         THEN LastMostFrequentFrom(ms, bestScore, i + 1, ms[i].Translation, c)
         ELSE LastMostFrequentFrom(ms, bestScore, i + 1, bestTrans, bestCount)

MostFrequentMut(ms, bestScore) ==
    LastMostFrequentFrom(ms, bestScore, 1, ms[1].Translation, 0)

MostFrequent(ms, bestScore) ==
    MostFrequentFrom(ms, bestScore, 1, ms[1].Translation, 0)

\* bestTranslation(matches) (string, float64)
bestTranslation(ms) ==
    IF Len(ms) = 0 THEN [text |-> <<>>, score |-> 0]
    ELSE LET bestScore == BestScoreOf(ms) IN
         [text |-> MostFrequent(ms, bestScore), score |-> bestScore]

BTInit ==
    /\ matches \in SeqsUpTo(MatchRecs, MaxMatches)
    /\ btPc = "call"
    /\ btText = <<>>
    /\ btScore = 0
    /\ OsaIdle
    /\ PrsIdle
    /\ CmdIdle
    /\ LstIdle
    /\ FnIdle

ElementsReadMut(ms) == {1} \cup (1..Len(ms))

\* the elements of matches that bestTranslation reads (numbered from 1):
\* none when the list is empty; otherwise matches[0] and every element the
\* three loops range over
ElementsRead(ms) == IF Len(ms) = 0 THEN {} ELSE {1} \cup (1..Len(ms))

\* one call of bestTranslation on the decoded matches array; the read of an
\* element the array does not have is a run-time panic (index out of range)
BestTranslationCall ==
    /\ btPc = "call"
    /\ IF ElementsRead(matches) \subseteq 1..Len(matches)
       THEN /\ btText' = bestTranslation(matches).text
            /\ btScore' = bestTranslation(matches).score
            /\ btPc' = "done"
       ELSE /\ btPc' = "panic"
            /\ UNCHANGED <<btText, btScore>>
    /\ UNCHANGED <<matches, notBT>>

BTNext == BestTranslationCall

SpecBT == BTInit /\ [][BTNext]_vars

----------------------------------------------------------------------------
(* Claims about bestTranslation                                             *)

MaxIdx(ms) == {i \in 1..Len(ms) : \A j \in 1..Len(ms) : ms[j].Match <= ms[i].Match}

\* C1: for a non-empty candidate list in which exactly one candidate has the
\* maximum score, the returned text is that candidate's text and the returned
\* score is that maximum score.
C1_UniqueMax ==
    (btPc = "done" /\ Cardinality(MaxIdx(matches)) = 1) =>
        \A i \in MaxIdx(matches) :
            /\ btText = matches[i].Translation
            /\ btScore = matches[i].Match

\* the unique maximum is not the first candidate and its text differs from it
C1_Witness ==
    /\ btPc = "done"
    /\ Len(matches) = 3
    /\ MaxIdx(matches) = {2}
    /\ matches[2].Translation # matches[1].Translation
    /\ btText = matches[2].Translation

\* case-insensitive occurrence count of candidate i among the maximum-score ones
FoldCount(ms, i) ==
    Cardinality({j \in MaxIdx(ms) : ToLower(ms[j].Translation) = ToLower(ms[i].Translation)})

\* C2: when several candidates share the maximum score, the returned text is
\* the text of the first candidate, in original order, among the maximum-score
\* candidates whose case-insensitive occurrence count is the highest; the
\* returned score is the maximum score.
C2_TiedMax ==
    (btPc = "done" /\ Cardinality(MaxIdx(matches)) > 1) =>
        \E i \in MaxIdx(matches) :
            /\ \A j \in MaxIdx(matches) : FoldCount(matches, j) <= FoldCount(matches, i)
            /\ \A j \in MaxIdx(matches) :
                   FoldCount(matches, j) = FoldCount(matches, i) => i <= j
            /\ btText = matches[i].Translation
            /\ btScore = matches[i].Match

\* two texts tie on the count (case-folded) and the first one in order wins,
\* and a case where the most frequent text is not the first maximum candidate
C2_Witness ==
    /\ btPc = "done"
    /\ Len(matches) = 3
    /\ MaxIdx(matches) = {1, 2, 3}
    /\ matches[1].Translation = <<"y", "o">>
    /\ matches[2].Translation = <<"H", "i">>
    /\ matches[3].Translation = <<"h", "i">>
    /\ btText = <<"H", "i">>

----------------------------------------------------------------------------
(* contacts: runOsascript                                                   *)

\* appleScriptTimeout, in seconds
appleScriptTimeout == 30

\* bound on the number of consecutive runOsascript calls
MaxOsaCalls == 2

Digits == <<"0", "1", "2", "3", "4", "5", "6", "7", "8", "9">>

\* strconv.Itoa / the %d verb for a non-negative integer
RECURSIVE Itoa(_)
Itoa(n) == IF n < 10 THEN <<Digits[n + 1]>> ELSE Itoa(n \div 10) \o <<Digits[(n % 10) + 1]>>

\* time.Duration.String for a whole number of seconds below one minute
DurationString(secs) == Itoa(secs) \o <<"s">>

\* fmt.Errorf("osascript timed out after %s", appleScriptTimeout)
TimedOutMsg ==
    <<"o", "s", "a", "s", "c", "r", "i", "p", "t", " ", "t", "i", "m", "e", "d",
      " ", "o", "u", "t", " ", "a", "f", "t", "e", "r", " ">>
    \o DurationString(appleScriptTimeout)

\* error texts of os/exec: a non-zero exit, a child killed by the context,
\* a child that could not be started, a context already expired at Start
ExitStatusErr == <<"e", "x", "i", "t", " ", "s", "t", "a", "t", "u", "s", " ", "1">>
KilledErr == <<"s", "i", "g", "n", "a", "l", ":", " ", "k", "i", "l", "l", "e", "d">>
LaunchErr ==
    <<"e", "x", "e", "c", ":", " ", "\"", "o", "s", "a", "s", "c", "r", "i", "p",
      "t", "\"", ":", " ", "e", "x", "e", "c", "u", "t", "a", "b", "l", "e", " ",
      "f", "i", "l", "e", " ", "n", "o", "t", " ", "f", "o", "u", "n", "d", " ",
      "i", "n", " ", "$", "P", "A", "T", "H">>
CtxDeadlineErr ==
    <<"c", "o", "n", "t", "e", "x", "t", " ", "d", "e", "a", "d", "l", "i", "n",
      "e", " ", "e", "x", "c", "e", "e", "d", "e", "d">>

\* what the child may have written to its standard output and standard error
StdoutTexts == {<<>>, <<"o", "k", "\n">>, <<" ", "o", " ", "k", " ", "\n">>}
StderrTexts == {<<>>, <<"\n">>, <<"e", "r", "\n">>, <<" ", "e", " ", "r", " ">>}

OsaLangs == {"AppleScript", "JavaScript"}

\* ctx.Err() == context.DeadlineExceeded
DeadlineExceededMut(ctx) == FALSE

DeadlineExceeded(ctx) == ctx = "deadline"

\* the message of a failure that is not a timeout: stderr, or err.Error() when
\* stderr is empty, trimmed
UntrimmedErrorText(stderr, errText) == IF stderr = <<>> THEN errText ELSE stderr

osaErrorText(stderr, errText) ==
    TrimSpace(IF stderr = <<>> THEN errText ELSE stderr)

OsaInit ==
    /\ BTIdle
    /\ PrsIdle
    /\ CmdIdle
    /\ LstIdle
    /\ FnIdle
    /\ osaPc = "idle"
    /\ osaLang = "none"
    /\ ctxErr = "none"
    /\ runFailed = FALSE
    /\ runErr = <<>>
    /\ stdoutBuf = <<>>
    /\ stderrBuf = <<>>
    /\ spawns = 0
    /\ children = 0
    /\ killed = FALSE
    /\ osaOut = <<>>
    /\ osaFailed = FALSE
    /\ osaErr = <<>>
    /\ osaCallNo = 0

\* entry of runOsascript: a fresh context with the deadline, a fresh command
\* and fresh output buffers
RunOsascript ==
    /\ osaPc = "idle"
    /\ osaCallNo < MaxOsaCalls
    /\ \E lang \in OsaLangs : osaLang' = lang
    /\ osaCallNo' = osaCallNo + 1
    /\ ctxErr' = "none"
    /\ runFailed' = FALSE
    /\ runErr' = <<>>
    /\ stdoutBuf' = <<>>
    /\ stderrBuf' = <<>>
    /\ spawns' = 0
    /\ children' = 0
    /\ killed' = FALSE
    /\ osaOut' = <<>>
    /\ osaFailed' = FALSE
    /\ osaErr' = <<>>
    /\ osaPc' = "start"

\* cmd.Run: the child process starts
CmdStartOk ==
    /\ osaPc = "start"
    /\ ctxErr = "none"
    /\ spawns' = spawns + 1
    /\ children' = children + 1
    /\ osaPc' = "running"
    /\ UNCHANGED <<osaLang, ctxErr, runFailed, runErr, stdoutBuf, stderrBuf,
                   killed, osaOut, osaFailed, osaErr, osaCallNo>>

\* the launch failure: cmd.Run starts no child and returns the error of Start
\* (the executable is missing, or the context is already done)
CmdStartFailRetry ==
    /\ osaPc = "start"
    /\ spawns < 2
    /\ spawns' = spawns + 1
    /\ runFailed' = TRUE
    /\ runErr' = IF ctxErr = "deadline" THEN CtxDeadlineErr ELSE LaunchErr
    /\ osaPc' = IF spawns = 0 THEN "start" ELSE "returned"
    /\ UNCHANGED <<osaLang, ctxErr, stdoutBuf, stderrBuf, children,
                   killed, osaOut, osaFailed, osaErr, osaCallNo>>

CmdStartFail ==
    /\ osaPc = "start"
    /\ spawns' = spawns + 1
    /\ runFailed' = TRUE
    /\ runErr' = IF ctxErr = "deadline" THEN CtxDeadlineErr ELSE LaunchErr
    /\ osaPc' = "returned"
    /\ UNCHANGED <<osaLang, ctxErr, stdoutBuf, stderrBuf, children,
                   killed, osaOut, osaFailed, osaErr, osaCallNo>>

\* the child ends on its own before the deadline: cmd.Run returns nil for
\* exit status 0 and an ExitError otherwise
ChildExit ==
    /\ osaPc = "running"
    /\ ctxErr = "none"
    /\ \E out \in StdoutTexts, err \in StderrTexts, failed \in BOOLEAN :
        /\ stdoutBuf' = out
        /\ stderrBuf' = err
        /\ runFailed' = failed
        /\ runErr' = IF failed THEN ExitStatusErr ELSE <<>>
    /\ osaPc' = "returned"
    /\ UNCHANGED <<osaLang, ctxErr, spawns, children, killed, osaOut, osaFailed,
                   osaErr, osaCallNo>>

\* the deadline elapses while the child is running: the context kills the
\* child, whatever it had written so far stays in the buffers, and cmd.Run
\* returns the error of the killed process
DeadlineKill ==
    /\ osaPc = "running"
    /\ ctxErr = "none"
    /\ ctxErr' = "deadline"
    /\ killed' = TRUE
    /\ \E out \in StdoutTexts, err \in StderrTexts :
        /\ stdoutBuf' = out
        /\ stderrBuf' = err
    /\ runFailed' = TRUE
    /\ runErr' = KilledErr
    /\ osaPc' = "returned"
    /\ UNCHANGED <<osaLang, spawns, children, osaOut, osaFailed, osaErr, osaCallNo>>

\* the deadline elapses when no child is running: before cmd.Run, or after
\* cmd.Run has returned and before ctx.Err() is read
DeadlineFires ==
    /\ osaPc \in {"start", "returned"}
    /\ ctxErr = "none"
    /\ ctxErr' = "deadline"
    /\ UNCHANGED <<osaPc, osaLang, runFailed, runErr, stdoutBuf, stderrBuf, spawns,
                   children, killed, osaOut, osaFailed, osaErr, osaCallNo>>

\* the code after cmd.Run: classify the error, build the result, and run the
\* deferred cancel
OsaReturn ==
    /\ osaPc = "returned"
    /\ IF runFailed
       THEN /\ osaFailed' = TRUE
            /\ osaOut' = <<>>
            /\ osaErr' = IF DeadlineExceeded(ctxErr)
                         THEN TimedOutMsg
                         ELSE osaErrorText(stderrBuf, runErr)
       ELSE /\ osaFailed' = FALSE
            /\ osaOut' = TrimSpace(stdoutBuf)
            /\ osaErr' = <<>>
    /\ ctxErr' = IF ctxErr = "none" THEN "canceled" ELSE ctxErr
    /\ osaPc' = "done"
    /\ UNCHANGED <<osaLang, runFailed, runErr, stdoutBuf, stderrBuf, spawns,
                   children, killed, osaCallNo>>

\* the caller has taken the result; the next call may begin
OsaCallerContinues ==
    /\ osaPc = "done"
    /\ osaPc' = "idle"
    /\ UNCHANGED <<osaLang, ctxErr, runFailed, runErr, stdoutBuf, stderrBuf, spawns,
                   children, killed, osaOut, osaFailed, osaErr, osaCallNo>>

OsaNext ==
    \/ (RunOsascript /\ UNCHANGED notOsa)
    \/ (CmdStartOk /\ UNCHANGED notOsa)
    \/ (CmdStartFail /\ UNCHANGED notOsa)
    \/ (ChildExit /\ UNCHANGED notOsa)
    \/ (DeadlineKill /\ UNCHANGED notOsa)
    \/ (DeadlineFires /\ UNCHANGED notOsa)
    \/ (OsaReturn /\ UNCHANGED notOsa)
    \/ (OsaCallerContinues /\ UNCHANGED notOsa)

SpecOsa == OsaInit /\ [][OsaNext]_vars

----------------------------------------------------------------------------
(* Claims about runOsascript                                                *)

\* C3: when the deadline elapses before the child process finishes, the call
\* returns the error "osascript timed out after 30s" and neither the stderr
\* text nor the process error text, even when the killed child had written to
\* stderr; a failure that is not a timeout never carries that message.
C3_TimeoutError ==
    /\ (osaPc = "done" /\ killed) =>
           /\ osaFailed
           /\ osaOut = <<>>
           /\ osaErr = TimedOutMsg
           /\ osaErr # TrimSpace(stderrBuf)
           /\ osaErr # runErr
    /\ (osaPc = "done" /\ osaFailed /\ ctxErr # "deadline") => osaErr # TimedOutMsg

C3_Witness ==
    /\ osaPc = "done"
    /\ killed
    /\ stderrBuf = <<"e", "r", "\n">>
    /\ osaErr = <<"o", "s", "a", "s", "c", "r", "i", "p", "t", " ", "t", "i", "m",
                  "e", "d", " ", "o", "u", "t", " ", "a", "f", "t", "e", "r", " ",
                  "3", "0", "s">>

\* C4: when cmd.Run fails and the deadline has not elapsed, the returned error
\* message is the captured stderr text with leading and trailing white space
\* removed, and the text of the process error when stderr is empty.
C4_StderrPreferred ==
    (osaPc = "done" /\ runFailed /\ ctxErr # "deadline") =>
        /\ osaFailed
        /\ osaOut = <<>>
        /\ stderrBuf # <<>> =>
               /\ osaErr = TrimSpace(stderrBuf)
               /\ osaErr = <<>> \/ (~IsSpace(Head(osaErr)) /\ ~IsSpace(osaErr[Len(osaErr)]))
        /\ stderrBuf = <<>> => osaErr = runErr

\* a failure whose stderr carries white space on both sides of the text
C4_Witness ==
    /\ osaPc = "done"
    /\ runFailed
    /\ ctxErr = "canceled"
    /\ stderrBuf = <<" ", "e", " ", "r", " ">>
    /\ osaErr = <<"e", " ", "r">>

\* the fallback: the child failed and wrote nothing to stderr
C4_WitnessFallback ==
    /\ osaPc = "done"
    /\ runFailed
    /\ ctxErr = "canceled"
    /\ stderrBuf = <<>>
    /\ osaErr = ExitStatusErr

\* the number of cmd.Run invocations and of children of the current call
C6_SpawnInv ==
    /\ spawns <= 1
    /\ children <= spawns
    /\ osaPc \in {"running", "returned", "done"} => spawns = 1
    /\ (osaPc \in {"returned", "done"} /\ runErr \notin {LaunchErr, CtxDeadlineErr})
           => children = 1

C6_FreshCall ==
    (osaPc = "idle" /\ osaPc' = "start") =>
        /\ spawns' = 0 /\ children' = 0 /\ ctxErr' = "none"
        /\ stdoutBuf' = <<>> /\ stderrBuf' = <<>> /\ ~runFailed' /\ ~killed'

----------------------------------------------------------------------------
(* contacts: parsing of the flattened script output                         *)

\* bound on the number of records in one script output
MaxRecords == 3

RecSep == <<":", ":", ":">>
FieldSep == <<"|", "|", "|">>
TotalSep == <<"~", "~", "~">>
ItemSep == <<";", ";", ";">>
ErrorPrefix == <<"E", "R", "R", "O", "R", ":">>
ErrorPrefixSp == <<"E", "R", "R", "O", "R", ":", " ">>
CantGetPerson ==
    <<"C", "a", "n", "'", "t", " ", "g", "e", "t", " ", "p", "e", "r", "s", "o", "n">>
CantGetGroup ==
    <<"C", "a", "n", "'", "t", " ", "g", "e", "t", " ", "g", "r", "o", "u", "p">>
NullText == <<"n", "u", "l", "l">>
LabelPrefix == <<"_", "$", "!", "<">>
LabelSuffix == <<">", "!", "$", "_">>
ParseFailedMsg ==
    <<"F", "a", "i", "l", "e", "d", " ", "t", "o", " ", "p", "a", "r", "s", "e", " ",
      "c", "o", "n", "t", "a", "c", "t", " ", "d", "a", "t", "a">>

IsDigit(c) == c \in {"0", "1", "2", "3", "4", "5", "6", "7", "8", "9"}

DigitVal(c) == CHOOSE v \in 0..9 : Digits[v + 1] = c

RECURSIVE ScanDigits(_, _)
ScanDigits(s, acc) ==
    IF s # <<>> /\ IsDigit(Head(s)) THEN ScanDigits(Tail(s), acc * 10 + DigitVal(Head(s)))
    ELSE acc

\* fmt.Sscanf(s, "%d", &n) on n = 0: leading white space is skipped, an
\* optional sign and the leading digits are read; n stays 0 without a digit
SscanfInt(s) ==
    LET t == TrimLeftSpace(s)
        neg == t # <<>> /\ Head(t) = "-"
        u == IF t # <<>> /\ Head(t) \in {"-", "+"} THEN Tail(t) ELSE t
    IN IF u # <<>> /\ IsDigit(Head(u))
       THEN (IF neg THEN 0 - ScanDigits(u, 0) ELSE ScanDigits(u, 0))
       ELSE 0

\* cleanLabel
\* strings.TrimLeft and strings.TrimRight: remove the leading (trailing)
\* characters that belong to the cutset
RECURSIVE TrimLeftCutset(_, _)
TrimLeftCutset(s, cutset) ==
    IF s # <<>> /\ (\E i \in 1..Len(cutset) : cutset[i] = Head(s))
    THEN TrimLeftCutset(Tail(s), cutset) ELSE s

RECURSIVE TrimRightCutset(_, _)
TrimRightCutset(s, cutset) ==
    IF s # <<>> /\ (\E i \in 1..Len(cutset) : cutset[i] = s[Len(s)])
    THEN TrimRightCutset(SubSeq(s, 1, Len(s) - 1), cutset) ELSE s

cleanLabelMut(label) == TrimRightCutset(TrimLeftCutset(label, LabelPrefix), LabelSuffix)

cleanLabel(label) == TrimSuffix(TrimPrefix(label, LabelPrefix), LabelSuffix)

\* the ContactSummary built from the fields of one record (list, search, group)
Summary(parts) ==
    [Name |-> TrimSpace(parts[1]), Email |-> TrimSpace(parts[2]),
     Phone |-> TrimSpace(parts[3]), Company |-> TrimSpace(parts[4])]

\* list and search: a company that is exactly "null" becomes empty
NullToEmptyMut(c) ==
    IF ToLower(c.Company) = NullText THEN [c EXCEPT !.Company = <<>>] ELSE c

NullToEmpty(c) == IF c.Company = NullText THEN [c EXCEPT !.Company = <<>>] ELSE c

\* the loop over the records in list and search: records of fewer than four
\* fields are skipped
RECURSIVE SummariesFrom(_, _, _)
SummariesFrom(items, i, contacts) ==
    IF i > Len(items) THEN contacts
    ELSE LET parts == Split(items[i], FieldSep) IN
         IF Len(parts) >= 4
         THEN SummariesFrom(items, i + 1, Append(contacts, NullToEmpty(Summary(parts))))
         ELSE SummariesFrom(items, i + 1, contacts)

RECURSIVE SummariesUntilShort(_, _, _)
SummariesUntilShort(items, i, contacts) ==
    IF i > Len(items) THEN contacts
    ELSE LET parts == Split(items[i], FieldSep) IN
         IF Len(parts) >= 4
         THEN SummariesUntilShort(items, i + 1, Append(contacts, NullToEmpty(Summary(parts))))
         ELSE contacts

ParseSummariesMut(data) == SummariesUntilShort(Split(data, RecSep), 1, <<>>)

ParseSummaries(data) == SummariesFrom(Split(data, RecSep), 1, <<>>)

\* the loop over the records in group: stops once limit contacts are taken
\* (limit > 0), skips records of fewer than four fields
RECURSIVE GroupFrom(_, _, _, _, _)
GroupFrom(items, i, limit, count, contacts) ==
    IF i > Len(items) \/ (limit > 0 /\ count >= limit) THEN contacts
    ELSE LET parts == Split(items[i], FieldSep) IN
         IF Len(parts) >= 4
         THEN GroupFrom(items, i + 1, limit, count + 1, Append(contacts, Summary(parts)))
         ELSE GroupFrom(items, i + 1, limit, count, contacts)

\* the loop of group with the count advanced for every record
RECURSIVE GroupFromCountAll(_, _, _, _, _)
GroupFromCountAll(items, i, limit, count, contacts) ==
    IF i > Len(items) \/ (limit > 0 /\ count >= limit) THEN contacts
    ELSE LET parts == Split(items[i], FieldSep) IN
         IF Len(parts) >= 4
         THEN GroupFromCountAll(items, i + 1, limit, count + 1,
                                Append(contacts, Summary(parts)))
         ELSE GroupFromCountAll(items, i + 1, limit, count + 1, contacts)

ParseGroupMut(data, limit) == GroupFromCountAll(Split(data, RecSep), 1, limit, 0, <<>>)

ParseGroup(data, limit) == GroupFrom(Split(data, RecSep), 1, limit, 0, <<>>)

\* the loop over the records in groups: records of fewer than two fields are
\* skipped
RECURSIVE GroupsFrom(_, _, _)
GroupsFrom(items, i, groups) ==
    IF i > Len(items) THEN groups
    ELSE LET parts == Split(items[i], FieldSep) IN
         IF Len(parts) >= 2
         THEN GroupsFrom(items, i + 1,
                  Append(groups, [Name |-> TrimSpace(parts[1]),
                                  Count |-> SscanfInt(TrimSpace(parts[2]))]))
         ELSE GroupsFrom(items, i + 1, groups)

ParseGroups(data) == GroupsFrom(Split(data, RecSep), 1, <<>>)

\* get: the emails and the phones, "label=value;;;" items
RECURSIVE LabelledFrom(_, _, _)
LabelledFrom(items, i, acc) ==
    IF i > Len(items) THEN acc
    ELSE LET item == TrimSpace(items[i])
             kv == SplitN(item, <<"=">>, 2)
         IN IF item # <<>> /\ Len(kv) = 2
            THEN LabelledFrom(items, i + 1,
                     Append(acc, [Label |-> cleanLabel(kv[1]), Value |-> kv[2]]))
            ELSE LabelledFrom(items, i + 1, acc)

ParseLabelled(field) ==
    LET str == TrimSpace(field) IN
    IF str = <<>> THEN <<>> ELSE LabelledFrom(Split(str, ItemSep), 1, <<>>)

\* get: the addresses, "label=street|city|state|zip|country;;;" items
RECURSIVE AddressesFrom(_, _, _)
AddressesFrom(items, i, acc) ==
    IF i > Len(items) THEN acc
    ELSE LET item == TrimSpace(items[i])
             kv == SplitN(item, <<"=">>, 2)
             f == IF Len(kv) = 2 THEN Split(kv[2], <<"|">>) ELSE <<>>
         IN IF item # <<>> /\ Len(kv) = 2 /\ Len(f) >= 5
            THEN AddressesFrom(items, i + 1,
                     Append(acc, [Label |-> cleanLabel(kv[1]), Street |-> f[1],
                                  City |-> f[2], State |-> f[3], Zip |-> f[4],
                                  Country |-> f[5]]))
            ELSE AddressesFrom(items, i + 1, acc)

ParseAddresses(field) ==
    LET str == TrimSpace(field) IN
    IF str = <<>> THEN <<>> ELSE AddressesFrom(Split(str, ItemSep), 1, <<>>)

\* get: the Contact built from the ten fields
ParseContact(parts) ==
    [Name |-> TrimSpace(parts[1]), FirstName |-> TrimSpace(parts[2]),
     LastName |-> TrimSpace(parts[3]), Company |-> TrimSpace(parts[4]),
     JobTitle |-> TrimSpace(parts[5]), Notes |-> TrimSpace(parts[6]),
     Birthday |-> TrimSpace(parts[7]), Emails |-> ParseLabelled(parts[8]),
     Phones |-> ParseLabelled(parts[9]), Addresses |-> ParseAddresses(parts[10])]

\* output.PrintError(kind, msg, ...)
PrintError(kind, msg) == [kind |-> kind, msg |-> msg]

\* newListCmd, after runJXA has returned result without error
listHandler(result) ==
    IF result = <<>> THEN [kind |-> "ok", contacts |-> <<>>, count |-> 0, total |-> 0]
    ELSE LET totalParts == SplitN(result, TotalSep, 2)
             total == SscanfInt(totalParts[1])
             contactData == IF Len(totalParts) > 1 THEN totalParts[2] ELSE <<>>
             contacts == ParseSummaries(contactData)
         IN IF contactData = <<>>
            THEN [kind |-> "ok", contacts |-> <<>>, count |-> 0, total |-> total]
            ELSE [kind |-> "ok", contacts |-> contacts, count |-> Len(contacts),
                  total |-> total]

\* newSearchCmd, after runJXA has returned result without error
searchHandler(result) ==
    IF result = <<>> THEN [kind |-> "ok", contacts |-> <<>>, count |-> 0]
    ELSE LET contacts == ParseSummaries(result) IN
         [kind |-> "ok", contacts |-> contacts, count |-> Len(contacts)]

\* newGroupsCmd, after runAppleScript has returned result without error
groupsHandler(result) ==
    IF result = <<>> THEN [kind |-> "ok", groups |-> <<>>, count |-> 0]
    ELSE LET groups == ParseGroups(result) IN
         [kind |-> "ok", groups |-> groups, count |-> Len(groups)]

groupHandlerMut(result, groupName, limit) ==
    IF HasPrefix(result, ErrorPrefix)
    THEN LET errMsg == TrimPrefix(result, ErrorPrefixSp) IN
         IF HasPrefix(errMsg, CantGetGroup)
         THEN PrintError("group_not_found",
                         <<"G", "r", "o", "u", "p", " ", "n", "o", "t", " ", "f", "o",
                           "u", "n", "d", ":", " ">> \o groupName)
         ELSE PrintError("group_failed", errMsg)
    ELSE IF result = <<>> THEN [kind |-> "ok", contacts |-> <<>>, count |-> 0]
    ELSE LET contacts == ParseGroup(result, limit) IN
         [kind |-> "ok", contacts |-> contacts, count |-> Len(contacts)]

\* newGroupCmd, after runAppleScript has returned result without error
groupHandler(result, groupName, limit) ==
    IF HasPrefix(result, ErrorPrefix)
    THEN LET errMsg == TrimPrefix(result, ErrorPrefixSp) IN
         IF Contains(errMsg, CantGetGroup)
         THEN PrintError("group_not_found",
                         <<"G", "r", "o", "u", "p", " ", "n", "o", "t", " ", "f", "o",
                           "u", "n", "d", ":", " ">> \o groupName)
         ELSE PrintError("group_failed", errMsg)
    ELSE IF result = <<>> THEN [kind |-> "ok", contacts |-> <<>>, count |-> 0]
    ELSE LET contacts == ParseGroup(result, limit) IN
         [kind |-> "ok", contacts |-> contacts, count |-> Len(contacts)]

\* newGetCmd, after runAppleScript has returned result without error
getHandler(result, contactName) ==
    IF HasPrefix(result, ErrorPrefix)
    THEN LET errMsg == TrimPrefix(result, ErrorPrefixSp) IN
         IF Contains(errMsg, CantGetPerson)
         THEN PrintError("contact_not_found",
                         <<"C", "o", "n", "t", "a", "c", "t", " ", "n", "o", "t", " ",
                           "f", "o", "u", "n", "d", ":", " ">> \o contactName)
         ELSE PrintError("get_failed", errMsg)
    ELSE LET parts == Split(result, FieldSep) IN
         IF Len(parts) < 10 THEN PrintError("parse_failed", ParseFailedMsg)
         ELSE [kind |-> "ok", contact |-> ParseContact(parts)]

\* the text a script returns for a list of records: the fields of a record
\* joined by "|||", the records joined by ":::"
RECURSIVE EncodeRecords(_)
EncodeRecords(recs) ==
    IF recs = <<>> THEN <<>>
    ELSE IF Len(recs) = 1 THEN Join(recs[1], FieldSep)
    ELSE Join(recs[1], FieldSep) \o RecSep \o EncodeRecords(Tail(recs))

\* the standard output of the script of each command, ended by a line feed;
\* the scripts of get and group return "ERROR: " and the message of an error
\* raised inside their try block
ScriptStdout(c, recs, err) ==
    (CASE err.raised -> ErrorPrefixSp \o err.msg
       [] c = "list" -> Itoa(Len(recs)) \o TotalSep \o EncodeRecords(recs)
       [] c = "get" -> Join(recs[1], FieldSep)
       [] OTHER -> EncodeRecords(recs))
    \o <<"\n">>

\* records a script output may hold: one to five fields, the name first
RawNames == {<<"a">>, <<" ", "b">>}
RawFieldCounts == {1, 3, 4, 5}
RawRecord(name, n) ==
    SubSeq(<<name, <<"2">>, <<"p">>, <<"c", " ">>, <<"x">>>>, 1, n)
\* records whose optional fields hold the text a script writes for a missing
\* property
NullRecords ==
    {<<<<"a">>, <<"n", "u", "l", "l">>, <<"n", "u", "l", "l">>, <<"n", "u", "l", "l">>>>,
     <<<<"a">>, <<"N", "u", "l", "l">>, <<"p">>, <<"N", "U", "L", "L">>>>,
     <<<<"a">>, <<"2">>, <<"p">>, <<"n", "u", "l", "l", " ">>>>}
RawRecords == {RawRecord(name, n) : name \in RawNames, n \in RawFieldCounts}

\* the records the script of a command may write: the second field of a
\* groups record is a number
RecordsOf(c) == IF c = "groups" THEN RawRecords ELSE RawRecords \cup NullRecords

\* messages of the errors a script may catch
ScriptErrTexts ==
    {<<"C", "a", "n", "'", "t", " ", "g", "e", "t", " ", "p", "e", "r", "s", "o", "n",
       " ", "1">>,
     <<"x", ":", " ", "C", "a", "n", "'", "t", " ", "g", "e", "t", " ", "g", "r", "o",
       "u", "p", " ", "1">>,
     <<"c", "a", "n", "'", "t", " ", "g", "e", "t", " ", "p", "e", "r", "s", "o", "n">>,
     <<"C", "a", "n", "'", "t", " ", "g", "e", "t", " ", "g", "r", "o", "u", "p", "s">>,
     <<"b", "o", "o", "m">>}
NoScriptErr == [raised |-> FALSE, msg |-> <<>>]
ScriptErrs(c) ==
    {NoScriptErr} \cup
    (IF c \in {"get", "group"}
     THEN {[raised |-> TRUE, msg |-> m] : m \in ScriptErrTexts} ELSE {})

\* the single record of get: name, first name, last name, company, job title,
\* notes, birthday, emails, phones, addresses
GetEmailLists ==
    {<<>>,
     <<"_", "$", "!", "<", "H", ">", "!", "$", "_", "=", "e", ";", ";", ";">>,
     <<"w", "=", "e", ";", ";", ";", "z", ";", ";", ";">>}
GetAddressLists ==
    {<<>>,
     <<"h", "=", "s", "|", "c", "|", "t", "|", "z", "|", "u", ";", ";", ";">>,
     <<"h", "=", "s", "|", "c", ";", ";", ";">>}
GetFieldCounts == {1, 9, 10, 11}
GetRecord(name, emails, addrs, n) ==
    SubSeq(<<name, <<"f">>, <<"l">>, <<"c">>, <<"j">>, <<"n">>, <<"d">>, emails,
             <<"m", "=", "1", ";", ";", ";">>, addrs, <<"x">>>>, 1, n)
GetRecords ==
    {GetRecord(name, e, a, n) :
        name \in RawNames, e \in GetEmailLists, a \in GetAddressLists, n \in GetFieldCounts}

PrsCmds == {"list", "search", "groups", "group", "get"}
PrsLimits == {-1, 0, 1, 2}

PrsInit ==
    /\ BTIdle
    /\ OsaIdle
    /\ CmdIdle
    /\ LstIdle
    /\ FnIdle
    /\ pCmd \in PrsCmds
    /\ pArg = <<"q">>
    /\ pLimit \in (IF pCmd = "group" THEN PrsLimits ELSE {0})
    /\ pErr \in ScriptErrs(pCmd)
    /\ pRecs \in (IF pErr.raised THEN {<<>>}
                  ELSE IF pCmd = "get" THEN {<<r>> : r \in GetRecords}
                  ELSE SeqsUpTo(RecordsOf(pCmd), MaxRecords))
    /\ pResult = <<>>
    /\ pPc = "call"
    /\ pOut = [kind |-> "none"]

\* runOsascript returns the trimmed standard output of the script
ScriptReturns ==
    /\ pPc = "call"
    /\ pResult' = TrimSpace(ScriptStdout(pCmd, pRecs, pErr))
    /\ pPc' = "parse"
    /\ UNCHANGED <<pCmd, pArg, pLimit, pRecs, pErr, pOut>>

\* the rest of the handler: parse the result and print
ParseResult ==
    /\ pPc = "parse"
    /\ pOut' = CASE pCmd = "list" -> listHandler(pResult)
                 [] pCmd = "search" -> searchHandler(pResult)
                 [] pCmd = "groups" -> groupsHandler(pResult)
                 [] pCmd = "group" -> groupHandler(pResult, pArg, pLimit)
                 [] pCmd = "get" -> getHandler(pResult, pArg)
    /\ pPc' = "done"
    /\ UNCHANGED <<pCmd, pArg, pLimit, pRecs, pErr, pResult>>

PrsNext ==
    \/ (ScriptReturns /\ UNCHANGED notPrs)
    \/ (ParseResult /\ UNCHANGED notPrs)

SpecPrs == PrsInit /\ [][PrsNext]_vars

----------------------------------------------------------------------------
(* Claims about the delimiter-based parsing                                 *)

\* the records of at least min fields, in their original order
WellFormed(recs, min) == SelectSeq(recs, LAMBDA r : Len(r) >= min)

FirstN(q, n) == SubSeq(q, 1, IF n < Len(q) THEN n ELSE Len(q))

\* the result a command that parses several records owes to the script output
ExpectedItems ==
    IF pCmd = "groups"
    THEN LET w == WellFormed(pRecs, 2) IN
         [i \in 1..Len(w) |-> [Name |-> TrimSpace(w[i][1]), Count |-> 2]]
    ELSE LET a == WellFormed(pRecs, 4)
             w == IF pCmd = "group" /\ pLimit > 0 THEN FirstN(a, pLimit) ELSE a
         IN [i \in 1..Len(w) |->
                [Name |-> TrimSpace(w[i][1]), Email |-> TrimSpace(w[i][2]),
                 Phone |-> TrimSpace(w[i][3]),
                 Company |-> IF pCmd # "group" /\ TrimSpace(w[i][4]) = NullText
                             THEN <<>> ELSE TrimSpace(w[i][4])]]

PrintedItems == IF pCmd = "groups" THEN pOut.groups ELSE pOut.contacts

HasShortRecord ==
    \E i \in 1..Len(pRecs) :
        Len(pRecs[i]) < (CASE pCmd = "groups" -> 2 [] pCmd = "get" -> 10 [] OTHER -> 4)

\* C10 as stated: in every contacts subcommand that parses script output, a
\* record with fewer fields than the expected minimum is dropped without
\* raising an error, and all well-formed records of the same response are
\* still returned in their original order.
C10_Original ==
    (pPc = "done" /\ ~pErr.raised) =>
        /\ pOut.kind = "ok"
        /\ pCmd # "get" => (PrintedItems = ExpectedItems /\ pOut.count = Len(ExpectedItems))

\* C10 amended: in list, search, groups and group a record with fewer fields
\* than the minimum (two in groups, four elsewhere) is dropped without an
\* error and the well-formed records are returned in their original order (in
\* group, the first limit of them when limit > 0); in get the output is one
\* record, and fewer than ten fields make the command fail with parse_failed.
C10_ShortRecordsDropped ==
    (pPc = "done" /\ ~pErr.raised) =>
        /\ pCmd # "get" =>
               /\ pOut.kind = "ok"
               /\ PrintedItems = ExpectedItems
               /\ pOut.count = Len(ExpectedItems)
        /\ pCmd = "get" =>
               /\ Len(pRecs[1]) < 10 => pOut = PrintError("parse_failed", ParseFailedMsg)
               /\ Len(pRecs[1]) >= 10 =>
                      /\ pOut.kind = "ok"
                      /\ pOut.contact.Name = TrimSpace(pRecs[1][1])
                      /\ pOut.contact.Phones = <<[Label |-> <<"m">>, Value |-> <<"1">>]>>
                      /\ pRecs[1][8] = <<"w", "=", "e", ";", ";", ";", "z", ";", ";", ";">>
                             => pOut.contact.Emails = <<[Label |-> <<"w">>, Value |-> <<"e">>]>>
                      /\ pRecs[1][10] = <<"h", "=", "s", "|", "c", ";", ";", ";">>
                             => pOut.contact.Addresses = <<>>

\* a short record between two well-formed ones in list
C10_Witness ==
    /\ pPc = "done"
    /\ pCmd = "list"
    /\ Len(pRecs) = 3
    /\ Len(pRecs[1]) = 4 /\ Len(pRecs[2]) = 3 /\ Len(pRecs[3]) = 5
    /\ Len(pOut.contacts) = 2
    /\ pOut.contacts[1].Name = <<"b">>
    /\ pOut.contacts[2].Name = <<"a">>

\* get with nine fields
C10_WitnessGet ==
    /\ pPc = "done"
    /\ pCmd = "get"
    /\ Len(pRecs[1]) = 9
    /\ pOut.kind = "parse_failed"

\* the well-formed records a command prints, before any field is rewritten
PrintedRecs ==
    LET a == WellFormed(pRecs, 4) IN
    IF pCmd = "group" /\ pLimit > 0 THEN FirstN(a, pLimit) ELSE a

SummaryCmdDone ==
    pPc = "done" /\ pCmd \in {"list", "search", "group"} /\ ~pErr.raised

\* C11 as stated: in list, search and group, an email, phone or company
\* that is exactly "null" is printed as the empty string, and any other
\* value is printed unchanged.
C11_Original ==
    SummaryCmdDone =>
        /\ Len(pOut.contacts) = Len(PrintedRecs)
        /\ \A i \in 1..Len(PrintedRecs) :
            LET norm(f) == IF TrimSpace(f) = NullText THEN <<>> ELSE TrimSpace(f) IN
            /\ pOut.contacts[i].Email = norm(PrintedRecs[i][2])
            /\ pOut.contacts[i].Phone = norm(PrintedRecs[i][3])
            /\ pOut.contacts[i].Company = norm(PrintedRecs[i][4])

\* C11 (amended): in list and search, a company whose trimmed value is
\* exactly "null" is printed as the empty string and every other company,
\* such as "Null" or "NULL", is printed unchanged; email and phone are
\* printed as they are, "null" included; group rewrites no field.
C11_NullCompany ==
    SummaryCmdDone =>
        /\ Len(pOut.contacts) = Len(PrintedRecs)
        /\ \A i \in 1..Len(PrintedRecs) :
            /\ pOut.contacts[i].Email = TrimSpace(PrintedRecs[i][2])
            /\ pOut.contacts[i].Phone = TrimSpace(PrintedRecs[i][3])
            /\ pOut.contacts[i].Company =
                  IF pCmd # "group" /\ TrimSpace(PrintedRecs[i][4]) = NullText
                  THEN <<>> ELSE TrimSpace(PrintedRecs[i][4])

\* search has printed a contact whose company was "null" and one whose
\* company was "NULL"
C11_Witness ==
    /\ SummaryCmdDone
    /\ pCmd = "search"
    /\ pRecs = <<<<<<"a">>, NullText, NullText, NullText>>,
                 <<<<"a">>, <<"N", "u", "l", "l">>, <<"p">>, <<"N", "U", "L", "L">>>>>>
    /\ pOut.contacts[1].Company = <<>>
    /\ pOut.contacts[1].Email = NullText
    /\ pOut.contacts[2].Company = <<"N", "U", "L", "L">>

\* the text t occurs in the text s
Occurs(t, s) == \E i \in 1..(Len(s) - Len(t) + 1) : SubSeq(s, i, i + Len(t) - 1) = t

ScriptErrorDone == pPc = "done" /\ pErr.raised

\* C14: get reports a script error as contact_not_found exactly when its
\* text contains "Can't get person", group reports one as group_not_found
\* exactly when its text contains "Can't get group"; every other script
\* error is reported as get_failed or group_failed with its text.
C14_NotFoundClassification ==
    ScriptErrorDone =>
        /\ pCmd = "get" =>
              /\ pOut.kind = "contact_not_found" <=> Occurs(CantGetPerson, pErr.msg)
              /\ ~Occurs(CantGetPerson, pErr.msg) => pOut = PrintError("get_failed", pErr.msg)
        /\ pCmd = "group" =>
              /\ pOut.kind = "group_not_found" <=> Occurs(CantGetGroup, pErr.msg)
              /\ ~Occurs(CantGetGroup, pErr.msg) => pOut = PrintError("group_failed", pErr.msg)

\* group has reported an error that names the missing group in the middle of
\* its text as group_not_found
C14_Witness ==
    /\ ScriptErrorDone
    /\ pCmd = "group"
    /\ pErr.msg = <<"x", ":", " ", "C", "a", "n", "'", "t", " ", "g", "e", "t", " ", "g",
                    "r", "o", "u", "p", " ", "1">>
    /\ pOut.kind = "group_not_found"

\* get has reported the same error as get_failed
C14_WitnessOther ==
    /\ ScriptErrorDone
    /\ pCmd = "get"
    /\ pErr.msg = <<"x", ":", " ", "C", "a", "n", "'", "t", " ", "g", "e", "t", " ", "g",
                    "r", "o", "u", "p", " ", "1">>
    /\ pOut.kind = "get_failed"
    /\ pOut.msg = pErr.msg



----------------------------------------------------------------------------
(* wifi: the functions that parse the output of system_profiler             *)

\* strings.Fields: the maximal runs of characters that are not white space
RECURSIVE FieldsFrom(_, _, _)
FieldsFrom(s, cur, acc) ==
    IF s = <<>> THEN (IF cur = <<>> THEN acc ELSE Append(acc, cur))
    ELSE IF IsSpace(Head(s))
    THEN FieldsFrom(Tail(s), <<>>, IF cur = <<>> THEN acc ELSE Append(acc, cur))
    ELSE FieldsFrom(Tail(s), Append(cur, Head(s)), acc)

Fields(s) == FieldsFrom(s, <<>>, <<>>)

\* strconv.Atoi for values within the range of int: an optional sign and
\* at least one digit, nothing else
Atoi(s) ==
    LET neg == s # <<>> /\ Head(s) = "-"
        u == IF s # <<>> /\ Head(s) \in {"-", "+"} THEN Tail(s) ELSE s
    IN IF u # <<>> /\ (\A k \in 1..Len(u) : IsDigit(u[k]))
       THEN [ok |-> TRUE, v |-> IF neg THEN 0 - ScanDigits(u, 0) ELSE ScanDigits(u, 0)]
       ELSE [ok |-> FALSE, v |-> 0]

parseChannelNumberMut(ch) ==
    IF ch = <<>> THEN 0
    ELSE LET parts == Split(ch, <<" ">>)
             r == Atoi(parts[1])
         IN IF ~r.ok THEN 0 ELSE r.v

parseChannelNumber(ch) ==
    IF ch = <<>> THEN 0
    ELSE LET parts == Fields(ch) IN
         IF Len(parts) = 0 THEN 0
         ELSE LET r == Atoi(parts[1]) IN
              IF ~r.ok THEN 0 ELSE r.v

\* strings.ReplaceAll for a non-empty old
RECURSIVE ReplaceAll(_, _, _)
ReplaceAll(s, old, new) ==
    IF s = <<>> THEN <<>>
    ELSE IF HasPrefix(s, old)
    THEN new \o ReplaceAll(SubSeq(s, Len(old) + 1, Len(s)), old, new)
    ELSE <<Head(s)>> \o ReplaceAll(Tail(s), old, new)

SecurityModePrefix ==
    <<"s", "p", "a", "i", "r", "p", "o", "r", "t", "_", "s", "e", "c", "u", "r", "i",
      "t", "y", "_", "m", "o", "d", "e", "_">>

cleanSecurityModeMut(mode) ==
    IF mode = <<>> THEN <<>>
    ELSE LET m == IF HasPrefix(mode, SecurityModePrefix)
                  THEN SubSeq(mode, Len(SecurityModePrefix) + 1, Len(mode)) ELSE mode
         IN ReplaceFirst(m, <<"_">>, <<"-">>)

cleanSecurityMode(mode) ==
    IF mode = <<>> THEN <<>>
    ELSE LET m == IF HasPrefix(mode, SecurityModePrefix)
                  THEN SubSeq(mode, Len(SecurityModePrefix) + 1, Len(mode)) ELSE mode
         IN ReplaceAll(m, <<"_">>, <<"-">>)

\* the regular expression (-?\d+)\s*dBm\s*/\s*(-?\d+)\s*dBm, matched from
\* position i of s. Each greedy repetition is followed by a character it
\* cannot match, so that the first attempt of the matcher is its only one.
RECURSIVE SkipDigits(_, _)
SkipDigits(s, i) == IF i <= Len(s) /\ IsDigit(s[i]) THEN SkipDigits(s, i + 1) ELSE i

RECURSIVE SkipSpaces(_, _)
SkipSpaces(s, i) == IF i <= Len(s) /\ IsSpace(s[i]) THEN SkipSpaces(s, i + 1) ELSE i

HasAt(s, i, lit) == i + Len(lit) - 1 <= Len(s) /\ SubSeq(s, i, i + Len(lit) - 1) = lit

DBm == <<"d", "B", "m">>

\* the end of -?\d+ (or of \d+ when signed is false) from position i, 0 if
\* it does not match there
IntEnd(s, i, signed) ==
    LET d == IF signed /\ HasAt(s, i, <<"-">>) THEN i + 1 ELSE i
        e == SkipDigits(s, d)
    IN IF e > d THEN e ELSE 0

SignalNoiseMatchAt(s, i, signed) ==
    LET e1 == IntEnd(s, i, signed)
        p1 == SkipSpaces(s, e1)
        p2 == SkipSpaces(s, p1 + 3)
        p3 == SkipSpaces(s, p2 + 1)
        e2 == IntEnd(s, p3, TRUE)
        p4 == SkipSpaces(s, e2)
    IN IF e1 # 0 /\ HasAt(s, p1, DBm) /\ HasAt(s, p2, <<"/">>) /\ e2 # 0 /\ HasAt(s, p4, DBm)
       THEN [ok |-> TRUE, m1 |-> SubSeq(s, i, e1 - 1), m2 |-> SubSeq(s, p3, e2 - 1)]
       ELSE [ok |-> FALSE, m1 |-> <<>>, m2 |-> <<>>]

\* regexp.FindStringSubmatch: the leftmost match
RECURSIVE FindSignalNoise(_, _, _)
FindSignalNoise(s, i, signed) ==
    IF i > Len(s) THEN [ok |-> FALSE, m1 |-> <<>>, m2 |-> <<>>]
    ELSE LET m == SignalNoiseMatchAt(s, i, signed) IN
         IF m.ok THEN m ELSE FindSignalNoise(s, i + 1, signed)

parseSignalNoiseMut(sn) ==
    IF sn = <<>> THEN <<0, 0>>
    ELSE LET m == FindSignalNoise(sn, 1, FALSE) IN
         IF m.ok THEN <<Atoi(m.m1).v, Atoi(m.m2).v>> ELSE <<0, 0>>

parseSignalNoise(sn) ==
    IF sn = <<>> THEN <<0, 0>>
    ELSE LET m == FindSignalNoise(sn, 1, TRUE) IN
         IF m.ok THEN <<Atoi(m.m1).v, Atoi(m.m2).v>> ELSE <<0, 0>>

\* The output of system_profiler after json.Unmarshal: valid tells whether
\* Unmarshal returned no error; entries is SPAirPortDataType, each entry the
\* list of its interfaces; an interface has a name, a status, a current
\* network (a pointer that may be nil) and the other networks.
En0 == <<"e", "n", "0">>
StatusConnected ==
    <<"s", "p", "a", "i", "r", "p", "o", "r", "t", "_", "s", "t", "a", "t", "u", "s", "_",
      "c", "o", "n", "n", "e", "c", "t", "e", "d">>

NilInterface == [found |-> FALSE]

\* the first interface named en0 from position i on, 0 if there is none
RECURSIVE IndexOfEn0(_, _)
IndexOfEn0(ifaces, i) ==
    IF i > Len(ifaces) THEN 0
    ELSE IF ifaces[i].name = En0 THEN i ELSE IndexOfEn0(ifaces, i + 1)

findWiFiInterfaceMut(data) ==
    IF ~data.valid THEN NilInterface
    ELSE IF Len(data.entries) = 0 THEN NilInterface
    ELSE IF Len(data.entries[1]) > 0
    THEN [found |-> TRUE, idx |-> 1, iface |-> data.entries[1][1]]
    ELSE NilInterface

findWiFiInterface(data) ==
    IF ~data.valid THEN NilInterface
    ELSE IF Len(data.entries) = 0 THEN NilInterface
    ELSE LET ifaces == data.entries[1]
             i == IndexOfEn0(ifaces, 1)
         IN IF i # 0 THEN [found |-> TRUE, idx |-> i, iface |-> ifaces[i]]
            ELSE IF Len(ifaces) > 0 THEN [found |-> TRUE, idx |-> 1, iface |-> ifaces[1]]
            ELSE NilInterface

\* the Network built from one nearby network
ScannedNetwork(net) ==
    [SSID |-> net.name,
     Channel |-> parseChannelNumber(net.channel),
     Security |-> cleanSecurityMode(net.security),
     RSSI |-> parseSignalNoise(net.signalNoise)[1]]

\* the loop of parseSystemProfilerScan, which appends the networks with an
\* SSID (keepAll: every network)
RECURSIVE ScanFrom(_, _, _, _)
ScanFrom(others, i, networks, keepAll) ==
    IF i > Len(others) THEN networks
    ELSE LET n == ScannedNetwork(others[i]) IN
         ScanFrom(others, i + 1,
                  IF keepAll \/ n.SSID # <<>> THEN Append(networks, n) ELSE networks,
                  keepAll)

parseSystemProfilerScanMut(data) ==
    LET r == findWiFiInterface(data) IN
    IF ~r.found THEN <<>> ELSE ScanFrom(r.iface.others, 1, <<>>, TRUE)

parseSystemProfilerScan(data) ==
    LET r == findWiFiInterface(data) IN
    IF ~r.found THEN <<>> ELSE ScanFrom(r.iface.others, 1, <<>>, FALSE)

\* ConnectionInfo{}
NoConnection ==
    [SSID |-> <<>>, Connected |-> FALSE, Channel |-> 0, Security |-> <<>>, RSSI |-> 0,
     Noise |-> 0, TxRate |-> <<>>]

parseSystemProfilerCurrentMut(data) ==
    LET r == findWiFiInterface(data) IN
    IF ~r.found THEN NoConnection
    ELSE IF ~r.iface.current.present THEN NoConnection
    ELSE LET cur == r.iface.current.net
             sn == parseSignalNoise(cur.signalNoise)
         IN [SSID |-> cur.name,
             Connected |-> cur.name # <<>>,
             Channel |-> parseChannelNumber(cur.channel),
             Security |-> cleanSecurityMode(cur.security),
             RSSI |-> sn[1],
             Noise |-> sn[2],
             TxRate |-> IF cur.rate > 0 THEN Itoa(cur.rate) \o <<" ", "M", "b", "p", "s">>
                        ELSE <<>>]

parseSystemProfilerCurrent(data) ==
    LET r == findWiFiInterface(data) IN
    IF ~r.found THEN NoConnection
    ELSE IF r.iface.status # StatusConnected \/ ~r.iface.current.present THEN NoConnection
    ELSE LET cur == r.iface.current.net
             sn == parseSignalNoise(cur.signalNoise)
         IN [SSID |-> cur.name,
             Connected |-> cur.name # <<>>,
             Channel |-> parseChannelNumber(cur.channel),
             Security |-> cleanSecurityMode(cur.security),
             RSSI |-> sn[1],
             Noise |-> sn[2],
             TxRate |-> IF cur.rate > 0 THEN Itoa(cur.rate) \o <<" ", "M", "b", "p", "s">>
                        ELSE <<>>]

\* what system_profiler may print when it exits with status 0: text that
\* json.Unmarshal rejects (after decoding a part of it or nothing), data
\* without an interface, an interface that is not connected, and a connected
\* interface with nearby networks
ProfilerOutputs ==
    LET home == [name |-> <<"H">>, channel |-> <<"3", "6", " ", "(", "5", "G", ")">>,
                 security |-> SecurityModePrefix \o <<"o", "p", "e", "n">>,
                 signalNoise |-> <<"-", "5", "5", " ", "d", "B", "m", " ", "/", " ", "-",
                                   "9", "0", " ", "d", "B", "m">>,
                 rate |-> 144]
        guest == [name |-> <<"G">>, channel |-> <<"6">>, security |-> <<>>,
                  signalNoise |-> <<>>, rate |-> 0]
        up == <<[name |-> En0, status |-> StatusConnected,
                 current |-> [present |-> TRUE, net |-> home], others |-> <<guest>>]>>
        down == <<[name |-> En0, status |-> <<"o", "f", "f">>,
                   current |-> [present |-> FALSE], others |-> <<>>]>>
    IN {[valid |-> FALSE, entries |-> <<>>], [valid |-> FALSE, entries |-> <<up>>],
        [valid |-> TRUE, entries |-> <<>>], [valid |-> TRUE, entries |-> <<<<>>>>],
        [valid |-> TRUE, entries |-> <<down>>], [valid |-> TRUE, entries |-> <<up>>]}

----------------------------------------------------------------------------
(* The subcommands: translate, timezone, real-estate clients, wifi, contacts *)

\* bound on the number of consecutive subcommand runs
MaxRuns == 1

ContactsCmds == {"contacts_list", "contacts_search", "contacts_get",
                 "contacts_groups", "contacts_group", "contacts_create"}
WifiCmds == {"wifi_scan", "wifi_current"}
FubCmds == {"fub_contacts", "fub_contact", "fub_leads", "fub_tasks", "fub_events"}
DotloopCmds == {"dotloop_loops", "dotloop_loop", "dotloop_profiles", "dotloop_tasks",
                "dotloop_documents"}
LocalCmds == {"translate_languages", "timezone_get", "timezone_list"}
Cmds == ContactsCmds \cup WifiCmds \cup FubCmds \cup DotloopCmds \cup LocalCmds
        \cup {"translate_text", "timezone_ip"}

\* runtime.GOOS
GoosValues == {"darwin", "linux", "windows"}

\* status codes a server may answer with
HttpStatuses == {200, 400, 404, 429, 500}

\* err.Error() of a failed httpClient.Do, of a failed JSON decoding and of a
\* read of the body under a cancelled context
TransportErrs ==
    {<<"d", "i", "a", "l", " ", "t", "c", "p", ":", " ", "c", "o", "n", "n", "e",
       "c", "t", "i", "o", "n", " ", "r", "e", "f", "u", "s", "e", "d">>,
     CtxDeadlineErr}
JsonSyntaxErr ==
    <<"i", "n", "v", "a", "l", "i", "d", " ", "c", "h", "a", "r", "a", "c", "t", "e",
      "r", " ", "'", "i", "'", " ", "l", "o", "o", "k", "i", "n", "g", " ", "f", "o",
      "r", " ", "b", "e", "g", "i", "n", "n", "i", "n", "g", " ", "o", "f", " ", "v",
      "a", "l", "u", "e">>
CtxCanceledErr ==
    <<"c", "o", "n", "t", "e", "x", "t", " ", "c", "a", "n", "c", "e", "l", "e", "d">>

HttpMsg(status) == <<"H", "T", "T", "P", " ">> \o Itoa(status)

RateLimitMsg ==
    <<"R", "a", "t", "e", " ", "l", "i", "m", "i", "t", " ", "e", "x", "c", "e", "e",
      "d", "e", "d", ",", " ", "t", "r", "y", " ", "a", "g", "a", "i", "n", " ", "l",
      "a", "t", "e", "r">>
TzNotFoundForIPMsg ==
    <<"T", "i", "m", "e", "z", "o", "n", "e", " ", "n", "o", "t", " ", "f", "o", "u",
      "n", "d", " ", "f", "o", "r", " ", "I", "P">>
TranslationFailedMsg ==
    <<"T", "r", "a", "n", "s", "l", "a", "t", "i", "o", "n", " ", "f", "a", "i", "l",
      "e", "d">>

NoError == [kind |-> "none"]

\* translate doRequest: the classification of the status of a response
doRequestStatusMut(status) ==
    IF status >= 400 THEN PrintError("fetch_failed", HttpMsg(status)) ELSE NoError

doRequestStatus(status) ==
    IF status = 429 THEN PrintError("rate_limited", RateLimitMsg)
    ELSE IF status >= 400 THEN PrintError("fetch_failed", HttpMsg(status))
    ELSE NoError

\* fetchTimezoneByIP: the classification of the status of a response
fetchTimezoneStatusMut(status) ==
    IF status = 404 THEN PrintError("not_found", TzNotFoundForIPMsg)
    ELSE IF status > 400 THEN PrintError("fetch_failed", HttpMsg(status))
    ELSE NoError

fetchTimezoneStatus(status) ==
    IF status = 404 THEN PrintError("not_found", TzNotFoundForIPMsg)
    ELSE IF status >= 400 THEN PrintError("fetch_failed", HttpMsg(status))
    ELSE NoError

\* the kind printed when json.NewDecoder(resp.Body).Decode fails
DecodeFailedKindMut == "fetch_failed"

DecodeFailedKind == "parse_failed"

\* bodies of the translation API: not JSON, an API error with and without
\* details, and translations with zero, one and two matches
TranslateBodies ==
    {[json |-> FALSE, responseStatus |-> 0, responseDetails |-> <<>>,
      translatedText |-> <<>>, match |-> 0, matches |-> <<>>],
     [json |-> TRUE, responseStatus |-> 403, responseDetails |-> <<"n", "o">>,
      translatedText |-> <<>>, match |-> 0, matches |-> <<>>],
     [json |-> TRUE, responseStatus |-> 403, responseDetails |-> <<>>,
      translatedText |-> <<>>, match |-> 0, matches |-> <<>>],
     [json |-> TRUE, responseStatus |-> 200, responseDetails |-> <<>>,
      translatedText |-> <<"y", "o">>, match |-> 1, matches |-> <<>>],
     [json |-> TRUE, responseStatus |-> 200, responseDetails |-> <<>>,
      translatedText |-> <<"y", "o">>, match |-> 1,
      matches |-> <<[Translation |-> <<"h", "i">>, Match |-> 2]>>],
     [json |-> TRUE, responseStatus |-> 200, responseDetails |-> <<>>,
      translatedText |-> <<"y", "o">>, match |-> 1,
      matches |-> <<[Translation |-> <<"y", "o">>, Match |-> 1],
                    [Translation |-> <<"h", "i">>, Match |-> 2]>>]}

\* newTextCmd after doRequest has returned a response: bodyRead is false when
\* the read of the body fails because doRequest has cancelled the context of
\* the request on its return
textResponse(body, bodyRead) ==
    IF ~bodyRead THEN PrintError(DecodeFailedKind, CtxCanceledErr)
    ELSE IF ~body.json THEN PrintError(DecodeFailedKind, JsonSyntaxErr)
    ELSE IF body.responseStatus # 200
    THEN PrintError("api_error", IF body.responseDetails # <<>>
                                 THEN body.responseDetails ELSE TranslationFailedMsg)
    ELSE LET best == bestTranslation(body.matches) IN
         [kind |-> "ok",
          translated_text |-> IF Len(body.matches) > 1 THEN best.text
                              ELSE body.translatedText,
          match |-> IF Len(body.matches) > 1 THEN best.score ELSE body.match]

\* Go integer division and remainder truncate toward zero
GoDiv(a, b) == IF a >= 0 THEN a \div b ELSE 0 - ((0 - a) \div b)
GoMod(a, b) == a - b * GoDiv(a, b)

\* the %02d verb for a non-negative integer
Pad2(n) == IF n < 10 THEN <<"0">> \o Itoa(n) ELSE Itoa(n)

\* the UTC offset string computed from the offset in seconds
utcOffset(offsetSec) ==
    LET hours == GoDiv(offsetSec, 3600)
        m == GoDiv(GoMod(offsetSec, 3600), 60)
        minutes == IF m < 0 THEN 0 - m ELSE m
    IN IF hours >= 0 THEN <<"+">> \o Pad2(hours) \o <<":">> \o Pad2(minutes)
       ELSE <<"-">> \o Pad2(0 - hours) \o <<":">> \o Pad2(minutes)

dayOfWeekMap ==
    [Sunday |-> 0, Monday |-> 1, Tuesday |-> 2, Wednesday |-> 3, Thursday |-> 4,
     Friday |-> 5, Saturday |-> 6]

TzOffsets == {-28800, -1800, 0, 19800}
TzDateTimes == {<<>>, <<"1", "T", "2">>, <<"1", " ", "2">>}

\* what may follow the first JSON value of a body: nothing, white space, or
\* other bytes, which Decoder.Decode does not read
BodyRests == {<<>>, <<"\n">>, <<"x">>}

\* bodies of the time API: json tells whether Decode finds a first JSON value
\* it can store in the response structure, the next fields are what it
\* stores, and rest is the text of the body behind that value
TimezoneBodies ==
    {[json |-> FALSE, seconds |-> 0, timeZone |-> <<>>, dayOfWeek |-> "", dateTime |-> <<>>,
      dstActive |-> FALSE, rest |-> <<>>]}
    \cup {[json |-> TRUE, seconds |-> o, timeZone |-> <<"U", "T", "C">>,
           dayOfWeek |-> "Monday", dateTime |-> dt, dstActive |-> FALSE, rest |-> <<>>] :
             o \in TzOffsets, dt \in TzDateTimes}
    \cup {[json |-> TRUE, seconds |-> 0, timeZone |-> <<"X", "/", "Y">>,
           dayOfWeek |-> "Monday", dateTime |-> <<>>, dstActive |-> FALSE, rest |-> <<>>]}
    \cup {[json |-> TRUE, seconds |-> 0, timeZone |-> <<"U", "T", "C">>,
           dayOfWeek |-> "Monday", dateTime |-> <<>>, dstActive |-> FALSE, rest |-> r] :
             r \in BodyRests}

\* the zone names time.LoadLocation knows, with their abbreviations
ZoneAbbreviations == [z \in {<<"U", "T", "C">>} |-> <<"U", "T", "C">>]

\* the ISO week of the clock: any one week of the year
ClockWeek == CHOOSE w \in 1..53 : TRUE

\* fetchTimezoneByIP after the status checks; the week number, abbreviation
\* and unix time of the result are read from the clock
timezoneResponseMut(body) ==
    IF FALSE THEN PrintError(DecodeFailedKind, JsonSyntaxErr)
    ELSE [kind |-> "ok",
          timezone |-> body.timeZone,
          datetime |-> IF body.dateTime # <<>> /\ ~Contains(body.dateTime, <<"T">>)
                       THEN ReplaceFirst(body.dateTime, <<" ">>, <<"T">>)
                       ELSE body.dateTime,
          utc_offset |-> utcOffset(body.seconds),
          day_of_week |-> IF body.dayOfWeek \in DOMAIN dayOfWeekMap
                          THEN dayOfWeekMap[body.dayOfWeek] ELSE 0,
          week_number |-> IF body.timeZone \in DOMAIN ZoneAbbreviations
                          THEN ClockWeek ELSE 0,
          abbreviation |-> IF body.timeZone \in DOMAIN ZoneAbbreviations
                           THEN ZoneAbbreviations[body.timeZone] ELSE <<>>,
          dst |-> body.dstActive]

timezoneResponse(body) ==
    IF ~body.json THEN PrintError(DecodeFailedKind, JsonSyntaxErr)
    ELSE [kind |-> "ok",
          timezone |-> body.timeZone,
          datetime |-> IF body.dateTime # <<>> /\ ~Contains(body.dateTime, <<"T">>)
                       THEN ReplaceFirst(body.dateTime, <<" ">>, <<"T">>)
                       ELSE body.dateTime,
          utc_offset |-> utcOffset(body.seconds),
          day_of_week |-> IF body.dayOfWeek \in DOMAIN dayOfWeekMap
                          THEN dayOfWeekMap[body.dayOfWeek] ELSE 0,
          week_number |-> IF body.timeZone \in DOMAIN ZoneAbbreviations
                          THEN ClockWeek ELSE 0,
          abbreviation |-> IF body.timeZone \in DOMAIN ZoneAbbreviations
                           THEN ZoneAbbreviations[body.timeZone] ELSE <<>>,
          dst |-> body.dstActive]

\* bodies of the real-estate APIs: raw text, whether it is JSON, and the
\* message field of an error body
RestBodies ==
    {[raw |-> <<"{", "}">>, json |-> TRUE, message |-> <<>>],
     [raw |-> <<"{", "\"", "m", "e", "s", "s", "a", "g", "e", "\"", ":", "\"", "m",
                "\"", "}">>, json |-> TRUE, message |-> <<"m">>],
     [raw |-> <<"o", "o", "p", "s">>, json |-> FALSE, message |-> <<>>]}

ApiName(c) ==
    IF c \in FubCmds THEN <<"F", "U", "B">> ELSE <<"D", "o", "t", "L", "o", "o", "p">>

\* fubClient.doRequest and dotloopClient.doRequest: the error for a status of
\* 400 or more
restStatusError(c, status, body) ==
    IF body.json /\ body.message # <<>>
    THEN ApiName(c) \o <<" ", "A", "P", "I", " ", "e", "r", "r", "o", "r", ":", " ">>
         \o body.message
    ELSE ApiName(c) \o <<" ", "A", "P", "I", " ", "e", "r", "r", "o", "r", " ", "(",
                         "H", "T", "T", "P", " ">>
         \o Itoa(status) \o <<")", ":", " ">> \o body.raw

\* the handlers of the real-estate subcommands after doRequest
restResponse(c, status, body) ==
    IF status >= 400 THEN PrintError("request_failed", restStatusError(c, status, body))
    ELSE IF ~body.json THEN PrintError("parse_error", JsonSyntaxErr)
    ELSE [kind |-> "ok", body |-> body.raw]

\* the error kind of a contacts subcommand whose runOsascript call fails
ContactsFailKind(c) ==
    CASE c = "contacts_list" -> "list_failed"
      [] c = "contacts_search" -> "search_failed"
      [] c = "contacts_get" -> "get_failed"
      [] c = "contacts_groups" -> "groups_failed"
      [] c = "contacts_group" -> "group_failed"
      [] c = "contacts_create" -> "create_failed"

\* newCreateCmd, after runAppleScript has returned result without error
createHandler(result) ==
    IF HasPrefix(result, ErrorPrefix)
    THEN PrintError("create_failed", TrimPrefix(result, ErrorPrefixSp))
    ELSE [kind |-> "ok", name |-> result]

\* results runOsascript may return to each contacts subcommand
ScriptResults(c) ==
    CASE c = "contacts_list" ->
            {<<>>, TrimSpace(ScriptStdout("list", <<RawRecord(<<"a">>, 4)>>, NoScriptErr))}
      [] c = "contacts_search" ->
            {<<>>, TrimSpace(ScriptStdout("search", <<RawRecord(<<"a">>, 4)>>, NoScriptErr))}
      [] c = "contacts_groups" ->
            {<<>>, TrimSpace(ScriptStdout("groups", <<RawRecord(<<"a">>, 3)>>, NoScriptErr))}
      [] c = "contacts_group" ->
            {<<>>, ErrorPrefixSp \o CantGetGroup,
             TrimSpace(ScriptStdout("group", <<RawRecord(<<"a">>, 4)>>, NoScriptErr))}
      [] c = "contacts_get" ->
            {ErrorPrefixSp \o CantGetPerson, ErrorPrefixSp \o <<"x">>, <<"a">>,
             TrimSpace(ScriptStdout("get", <<GetRecord(<<"a">>, <<>>, <<>>, 10)>>, NoScriptErr))}
      [] c = "contacts_create" -> {<<"a">>, ErrorPrefixSp \o <<"x">>}

\* the error runOsascript may return
OsaErrors == {TimedOutMsg, <<"e", "r">>, ExitStatusErr}

\* the rest of a contacts handler once runOsascript has returned result
contactsHandler(c, result) ==
    CASE c = "contacts_list" -> listHandler(result)
      [] c = "contacts_search" -> searchHandler(result)
      [] c = "contacts_groups" -> groupsHandler(result)
      [] c = "contacts_group" -> groupHandler(result, <<"q">>, 0)
      [] c = "contacts_get" -> getHandler(result, <<"q">>)
      [] c = "contacts_create" -> createHandler(result)

\* the error messages of the wifi subcommands
WifiErrPrefix(c, os) ==
    IF os = "darwin"
    THEN <<"s", "y", "s", "t", "e", "m", "_", "p", "r", "o", "f", "i", "l", "e", "r",
           " ", "f", "a", "i", "l", "e", "d", ":", " ">>
    ELSE IF c = "wifi_scan"
    THEN <<"n", "m", "c", "l", "i", " ", "s", "c", "a", "n", " ", "f", "a", "i", "l",
           "e", "d", ":", " ">>
    ELSE <<"n", "m", "c", "l", "i", " ", "f", "a", "i", "l", "e", "d", ":", " ">>

WifiFailKind(c) == IF c = "wifi_scan" THEN "wifi_scan_error" ELSE "wifi_info_error"

NoResp == [type |-> "none"]

CmdInit ==
    /\ BTIdle
    /\ OsaIdle
    /\ PrsIdle
    /\ LstIdle
    /\ FnIdle
    /\ cmd = "none"
    /\ goos = "none"
    /\ cpc = "idle"
    /\ calls = <<>>
    /\ resp = NoResp
    /\ decoded = FALSE
    /\ cOut = NoError
    /\ runNo = 0

\* a subcommand is run on some platform
Invoke ==
    /\ cpc = "idle"
    /\ runNo < MaxRuns
    /\ \E c \in Cmds, os \in GoosValues :
        /\ cmd' = c
        /\ goos' = os
    /\ cpc' = "run"
    /\ calls' = <<>>
    /\ resp' = NoResp
    /\ decoded' = FALSE
    /\ cOut' = NoError
    /\ runNo' = runNo + 1

\* contacts PersistentPreRunE, scanNetworks and currentConnection on a platform
\* they do not support
PlatformUnsupported ==
    /\ cpc = "run"
    /\ \/ (cmd \in ContactsCmds /\ goos # "darwin")
       \/ (cmd \in WifiCmds /\ goos \notin {"darwin", "linux"})
    /\ cOut' = [kind |-> "platform_unsupported"]
    /\ cpc' = "done"
    /\ UNCHANGED <<cmd, goos, calls, resp, decoded, runNo>>

\* translate languages, timezone list and timezone get make no external call;
\* timezone get fails when time.LoadLocation does not know the name
LocalCommand ==
    /\ cpc = "run"
    /\ cmd \in LocalCmds
    /\ \/ cOut' = [kind |-> "ok"]
       \/ /\ cmd = "timezone_get"
          /\ cOut' = [kind |-> "not_found"]
       \/ /\ cmd = "timezone_get"
          /\ \E o \in TzOffsets : cOut' = [kind |-> "ok", utc_offset |-> utcOffset(o)]
    /\ cpc' = "done"
    /\ UNCHANGED <<cmd, goos, calls, resp, decoded, runNo>>

\* newFUBClient and newDotloopClient fail on a missing configuration key; the
\* handler returns that error before any request
ConfigMissing ==
    /\ cpc = "run"
    /\ cmd \in FubCmds \cup DotloopCmds
    /\ cOut' = [kind |-> "config_error"]
    /\ cpc' = "done"
    /\ UNCHANGED <<cmd, goos, calls, resp, decoded, runNo>>

\* the one runOsascript call of a contacts subcommand
OsascriptCall ==
    /\ cpc = "run"
    /\ cmd \in ContactsCmds
    /\ goos = "darwin"
    /\ \/ \E e \in OsaErrors :
            /\ resp' = [type |-> "process", failed |-> TRUE, err |-> e, out |-> <<>>]
            /\ calls' = Append(calls, [kind |-> "process", ok |-> FALSE])
       \/ \E r \in ScriptResults(cmd) :
            /\ resp' = [type |-> "process", failed |-> FALSE, err |-> <<>>, out |-> r]
            /\ calls' = Append(calls, [kind |-> "process", ok |-> TRUE])
    /\ cpc' = "handle"
    /\ UNCHANGED <<cmd, goos, decoded, cOut, runNo>>

\* scanDarwin, currentDarwin, scanLinux, and the first nmcli of currentLinux,
\* whose failure leads to a second nmcli invocation
ExecCall ==
    /\ cpc = "run"
    /\ cmd \in WifiCmds
    /\ goos \in {"darwin", "linux"}
    /\ \E failed \in BOOLEAN :
        /\ \E out \in (IF ~failed /\ goos = "darwin" THEN ProfilerOutputs ELSE {<<>>}) :
              resp' = [type |-> "process", failed |-> failed,
                       err |-> IF failed THEN ExitStatusErr ELSE <<>>, out |-> out]
        /\ calls' = Append(calls, [kind |-> "process", ok |-> ~failed])
        /\ cpc' = IF failed /\ cmd = "wifi_current" /\ goos = "linux"
                  THEN "fallback" ELSE "handle"
    /\ UNCHANGED <<cmd, goos, decoded, cOut, runNo>>

\* currentLinux: the second nmcli invocation, after the first has failed
ExecFallback ==
    /\ cpc = "fallback"
    /\ \E failed \in BOOLEAN :
        /\ resp' = [type |-> "process", failed |-> failed,
                    err |-> IF failed THEN ExitStatusErr ELSE <<>>, out |-> <<>>]
        /\ calls' = Append(calls, [kind |-> "process", ok |-> ~failed])
    /\ cpc' = "handle"
    /\ UNCHANGED <<cmd, goos, decoded, cOut, runNo>>

HttpBodies(c) ==
    IF c = "translate_text" THEN TranslateBodies
    ELSE IF c = "timezone_ip" THEN TimezoneBodies
    ELSE RestBodies

\* httpClient.Do: a transport failure, or a response with a status and a
\* body; in translate the body is read after doRequest has returned and
\* cancelled the context, so that the read may or may not succeed
HttpCall ==
    /\ cpc = "run"
    /\ cmd \in {"translate_text", "timezone_ip"} \cup FubCmds \cup DotloopCmds
    /\ \/ \E e \in TransportErrs :
            /\ resp' = [type |-> "http", failed |-> TRUE, err |-> e, status |-> 0,
                        body |-> [json |-> FALSE], bodyRead |-> FALSE]
            /\ calls' = Append(calls, [kind |-> "http", ok |-> FALSE])
       \/ \E st \in HttpStatuses, b \in HttpBodies(cmd), rd \in BOOLEAN :
            /\ rd \/ cmd = "translate_text"
            /\ resp' = [type |-> "http", failed |-> FALSE, err |-> <<>>, status |-> st,
                        body |-> b, bodyRead |-> rd]
            /\ calls' = Append(calls, [kind |-> "http", ok |-> st < 400])
    /\ cpc' = "handle"
    /\ UNCHANGED <<cmd, goos, decoded, cOut, runNo>>

\* a contacts handler after runOsascript
ContactsHandleRetry ==
    /\ cpc = "handle"
    /\ cmd \in ContactsCmds
    /\ IF resp.failed /\ Len(calls) < 2
       THEN cOut' = cOut /\ cpc' = "run"
       ELSE /\ cOut' = IF resp.failed THEN PrintError(ContactsFailKind(cmd), resp.err)
                       ELSE contactsHandler(cmd, resp.out)
            /\ cpc' = "done"
    /\ UNCHANGED <<cmd, goos, calls, resp, decoded, runNo>>

ContactsHandle ==
    /\ cpc = "handle"
    /\ cmd \in ContactsCmds
    /\ cOut' = IF resp.failed THEN PrintError(ContactsFailKind(cmd), resp.err)
               ELSE contactsHandler(cmd, resp.out)
    /\ cpc' = "done"
    /\ UNCHANGED <<cmd, goos, calls, resp, decoded, runNo>>

\* a wifi handler after its last external command: the error, or the result
\* parsed from the output of that command
WifiHandleStrict ==
    /\ cpc = "handle"
    /\ cmd \in WifiCmds
    /\ cOut' = IF resp.failed
               THEN PrintError(WifiFailKind(cmd), WifiErrPrefix(cmd, goos) \o resp.err)
               ELSE IF goos = "darwin" /\ ~findWiFiInterface(resp.out).found
               THEN PrintError(WifiFailKind(cmd), JsonSyntaxErr)
               ELSE IF goos = "darwin" /\ cmd = "wifi_scan"
               THEN LET networks == parseSystemProfilerScan(resp.out) IN
                    [kind |-> "ok", networks |-> networks, count |-> Len(networks)]
               ELSE IF goos = "darwin"
               THEN [kind |-> "ok", info |-> parseSystemProfilerCurrent(resp.out)]
               ELSE [kind |-> "ok", parsedCall |-> Len(calls)]
    /\ cpc' = "done"
    /\ UNCHANGED <<cmd, goos, calls, resp, decoded, runNo>>

WifiHandle ==
    /\ cpc = "handle"
    /\ cmd \in WifiCmds
    /\ cOut' = IF resp.failed
               THEN PrintError(WifiFailKind(cmd), WifiErrPrefix(cmd, goos) \o resp.err)
               ELSE IF goos = "darwin" /\ cmd = "wifi_scan"
               THEN LET networks == parseSystemProfilerScan(resp.out) IN
                    [kind |-> "ok", networks |-> networks, count |-> Len(networks)]
               ELSE IF goos = "darwin"
               THEN [kind |-> "ok", info |-> parseSystemProfilerCurrent(resp.out)]
               ELSE [kind |-> "ok", parsedCall |-> Len(calls)]
    /\ cpc' = "done"
    /\ UNCHANGED <<cmd, goos, calls, resp, decoded, runNo>>

\* newTextCmd: the rest of doRequest and of the handler
TranslateHandle ==
    /\ cpc = "handle"
    /\ cmd = "translate_text"
    /\ IF resp.failed
       THEN cOut' = PrintError("fetch_failed", resp.err) /\ decoded' = FALSE
       ELSE IF doRequestStatus(resp.status) # NoError
       THEN cOut' = doRequestStatus(resp.status) /\ decoded' = FALSE
       ELSE cOut' = textResponse(resp.body, resp.bodyRead) /\ decoded' = TRUE
    /\ cpc' = "done"
    /\ UNCHANGED <<cmd, goos, calls, resp, runNo>>

\* fetchTimezoneByIP after httpClient.Do
TimezoneHandle ==
    /\ cpc = "handle"
    /\ cmd = "timezone_ip"
    /\ IF resp.failed
       THEN cOut' = PrintError("fetch_failed", resp.err) /\ decoded' = FALSE
       ELSE IF fetchTimezoneStatus(resp.status) # NoError
       THEN cOut' = fetchTimezoneStatus(resp.status) /\ decoded' = FALSE
       ELSE cOut' = timezoneResponse(resp.body) /\ decoded' = TRUE
    /\ cpc' = "done"
    /\ UNCHANGED <<cmd, goos, calls, resp, runNo>>

\* the real-estate handlers: the rest of doRequest (the body is read and, for
\* a status of 400 or more, decoded as an error body) and of the handler
RestHandle ==
    /\ cpc = "handle"
    /\ cmd \in FubCmds \cup DotloopCmds
    /\ IF resp.failed
       THEN cOut' = PrintError("request_failed", resp.err) /\ decoded' = FALSE
       ELSE cOut' = restResponse(cmd, resp.status, resp.body) /\ decoded' = TRUE
    /\ cpc' = "done"
    /\ UNCHANGED <<cmd, goos, calls, resp, runNo>>

\* the process exits; another run may follow
CmdExit ==
    /\ cpc = "done"
    /\ cpc' = "idle"
    /\ UNCHANGED <<cmd, goos, calls, resp, decoded, cOut, runNo>>

CmdNext ==
    \/ (Invoke /\ UNCHANGED notCmd)
    \/ (PlatformUnsupported /\ UNCHANGED notCmd)
    \/ (LocalCommand /\ UNCHANGED notCmd)
    \/ (ConfigMissing /\ UNCHANGED notCmd)
    \/ (OsascriptCall /\ UNCHANGED notCmd)
    \/ (ExecCall /\ UNCHANGED notCmd)
    \/ (ExecFallback /\ UNCHANGED notCmd)
    \/ (HttpCall /\ UNCHANGED notCmd)
    \/ (ContactsHandle /\ UNCHANGED notCmd)
    \/ (WifiHandle /\ UNCHANGED notCmd)
    \/ (TranslateHandle /\ UNCHANGED notCmd)
    \/ (TimezoneHandle /\ UNCHANGED notCmd)
    \/ (RestHandle /\ UNCHANGED notCmd)
    \/ (CmdExit /\ UNCHANGED notCmd)

SpecCmd == CmdInit /\ [][CmdNext]_vars

\* ---------------------------------------------------------------------
\* Properties of the subcommands' external calls

LastCallFailed == calls # <<>> /\ ~calls[Len(calls)].ok

IsErrorOut == cOut.kind \notin {"ok", "none"}

CurrentLinux == cmd = "wifi_current" /\ goos = "linux"

HttpAnswered == cpc = "done" /\ resp.type = "http" /\ ~resp.failed

\* C5 as stated: in every subcommand, a failed external call is never
\* followed by another external call, and the finished subcommand reports an
\* error.
C5_Original ==
    /\ [][LastCallFailed => Len(calls') <= Len(calls)]_vars
    /\ [](cpc = "done" /\ LastCallFailed => IsErrorOut)

\* C5 (amended): in every subcommand other than wifi current on Linux a
\* failed external call is followed by no further call, so that a run makes
\* at most one; wifi current on Linux follows a failed first nmcli by exactly
\* one further nmcli and makes at most two calls. A run whose last call
\* failed ends with a structured error.
C5_NoRetry ==
    /\ [][(LastCallFailed /\ ~(CurrentLinux /\ Len(calls) = 1))
            => Len(calls') <= Len(calls)]_vars
    /\ [](Len(calls) <= IF CurrentLinux THEN 2 ELSE 1)
    /\ [](Len(calls) = 2 => ~calls[1].ok)
    /\ []((cpc = "fallback") => (CurrentLinux /\ Len(calls) = 1 /\ LastCallFailed))
    /\ [](cpc = "done" /\ LastCallFailed => IsErrorOut)

\* a contacts subcommand has ended with the error of its one failed call
C5_Witness ==
    /\ cpc = "done"
    /\ cmd = "contacts_list"
    /\ Len(calls) = 1
    /\ LastCallFailed
    /\ cOut = PrintError("list_failed", TimedOutMsg)

\* wifi current on Linux has ended after two failed nmcli invocations
C5_WitnessFallback ==
    /\ cpc = "done"
    /\ CurrentLinux
    /\ Len(calls) = 2
    /\ LastCallFailed
    /\ cOut.kind = "wifi_info_error"

\* C7 as stated: translate and timezone-by-IP both report a 429 response
\* with the kind rate_limited, after one request.
C7_Original ==
    (HttpAnswered /\ cmd \in {"translate_text", "timezone_ip"} /\ resp.status = 429)
        => (cOut.kind = "rate_limited" /\ Len(calls) = 1)

\* C7 (amended): translate reports a 429 response with the kind rate_limited
\* and the fixed message; timezone-by-IP reports it with the kind
\* fetch_failed and the message "HTTP 429". Either ends after its one request
\* without decoding the body.
C7_RateLimited ==
    (HttpAnswered /\ resp.status = 429) =>
        /\ cmd = "translate_text" => cOut = PrintError("rate_limited", RateLimitMsg)
        /\ cmd = "timezone_ip" => cOut = PrintError("fetch_failed", HttpMsg(429))
        /\ cmd \in {"translate_text", "timezone_ip"} => (Len(calls) = 1 /\ ~decoded)

C7_Witness ==
    /\ HttpAnswered
    /\ cmd = "translate_text"
    /\ resp.status = 429
    /\ resp.body.json
    /\ cOut.kind = "rate_limited"

C7_WitnessTimezone ==
    /\ HttpAnswered
    /\ cmd = "timezone_ip"
    /\ resp.status = 429
    /\ cOut.kind = "fetch_failed"

\* C8 as stated: translate and timezone-by-IP both report every status of
\* 400 or more other than 429 with the kind fetch_failed and a message
\* carrying the status, without decoding the body.
C8_Original ==
    (HttpAnswered /\ cmd \in {"translate_text", "timezone_ip"}
       /\ resp.status >= 400 /\ resp.status # 429)
        => (cOut = PrintError("fetch_failed", HttpMsg(resp.status)) /\ ~decoded)

\* C8 (amended): translate reports every status of 400 or more other than
\* 429, and timezone-by-IP every status of 400 or more other than 404, with
\* the kind fetch_failed and the message "HTTP <status>"; timezone-by-IP
\* reports 404 with the kind not_found and a message without the status. The
\* body is decoded in none of these cases.
C8_StatusErrors ==
    (HttpAnswered /\ cmd \in {"translate_text", "timezone_ip"} /\ resp.status >= 400)
        => /\ ~decoded
           /\ (cmd = "translate_text" /\ resp.status # 429)
                => cOut = PrintError("fetch_failed", HttpMsg(resp.status))
           /\ (cmd = "timezone_ip" /\ resp.status # 404)
                => cOut = PrintError("fetch_failed", HttpMsg(resp.status))
           /\ (cmd = "timezone_ip" /\ resp.status = 404)
                => cOut = PrintError("not_found", TzNotFoundForIPMsg)

C8_Witness ==
    /\ HttpAnswered
    /\ cmd = "timezone_ip"
    /\ resp.status = 400
    /\ resp.body.json
    /\ cOut = PrintError("fetch_failed", <<"H", "T", "T", "P", " ", "4", "0", "0">>)

C8_WitnessNotFound ==
    /\ HttpAnswered
    /\ cmd = "timezone_ip"
    /\ resp.status = 404
    /\ cOut.kind = "not_found"

\* C9: when translate or timezone-by-IP gets a response with a status below
\* 400 whose body is not JSON, it reports the kind parse_failed and prints no
\* result, whereas a transport failure is reported with the kind
\* fetch_failed; the real-estate subcommands likewise report the undecodable
\* body (parse_error) with another kind than the transport failure
\* (request_failed).
C9_ParseFailedDistinct ==
    /\ (HttpAnswered /\ resp.status < 400 /\ ~resp.body.json) =>
          /\ cOut.kind # "ok"
          /\ cmd \in {"translate_text", "timezone_ip"} =>
                (cOut.kind = "parse_failed" /\ decoded)
          /\ cmd \in FubCmds \cup DotloopCmds => cOut.kind = "parse_error"
    /\ (cpc = "done" /\ resp.type = "http" /\ resp.failed) =>
          /\ cOut.kind # "ok"
          /\ cmd \in {"translate_text", "timezone_ip"} => cOut.kind = "fetch_failed"
          /\ cmd \in FubCmds \cup DotloopCmds => cOut.kind = "request_failed"

C9_Witness ==
    /\ HttpAnswered
    /\ cmd = "timezone_ip"
    /\ resp.status = 200
    /\ ~resp.body.json
    /\ cOut = PrintError("parse_failed", JsonSyntaxErr)

C9_WitnessTranslate ==
    /\ HttpAnswered
    /\ cmd = "translate_text"
    /\ resp.status = 200
    /\ ~resp.body.json
    /\ resp.bodyRead
    /\ cOut.kind = "parse_failed"

\* system_profiler has exited with status 0 and its output cannot be
\* parsed: json.Unmarshal rejects it, or it names no interface
ProfilerParseFailed ==
    /\ cpc = "done"
    /\ cmd \in WifiCmds
    /\ goos = "darwin"
    /\ ~resp.failed
    /\ (~resp.out.valid \/ resp.out.entries = <<>> \/ resp.out.entries[1] = <<>>)

\* the timezone API has answered with a zone name the tz database lacks
UnknownZoneAnswered ==
    /\ HttpAnswered
    /\ cmd = "timezone_ip"
    /\ resp.status < 400
    /\ resp.body.json
    /\ resp.body.timeZone \notin DOMAIN ZoneAbbreviations

C13_WitnessZone ==
    /\ UnknownZoneAnswered
    /\ cOut.kind = "ok"
    /\ cOut.week_number = 0


----------------------------------------------------------------------------
(* contacts list: how many contacts the script is asked for                 *)

\* the cap newListCmd puts in the script when limit is not positive
DefaultMaxResults == 100

MaxPeople == 101

\* values of the --limit flag, whose default is 0
ListLimits == {0 - 1, 0, 1, 99, 100, 150}

maxResults(limit) == IF limit <= 0 THEN DefaultMaxResults ELSE limit

\* Math.min(total, maxResults) in the script
MathMin(a, b) == IF a < b THEN a ELSE b

LstInit ==
    /\ BTIdle
    /\ OsaIdle
    /\ PrsIdle
    /\ CmdIdle
    /\ FnIdle
    /\ lLimit \in ListLimits
    /\ lTotal \in 0..MaxPeople
    /\ lMax = 0
    /\ lCount = 0
    /\ lPc = "build"

\* newListCmd builds the script with maxResults
ListBuildScript ==
    /\ lPc = "build"
    /\ lMax' = maxResults(lLimit)
    /\ lPc' = "run"
    /\ UNCHANGED <<lLimit, lTotal, lCount>>

\* the script returns the first count of the total contacts
ListRunScript ==
    /\ lPc = "run"
    /\ lCount' = MathMin(lTotal, lMax)
    /\ lPc' = "done"
    /\ UNCHANGED <<lLimit, lTotal, lMax>>

LstNext ==
    \/ (ListBuildScript /\ UNCHANGED notLst)
    \/ (ListRunScript /\ UNCHANGED notLst)

SpecLst == LstInit /\ [][LstNext]_vars

\* C15: with limit 0 contacts list returns all contacts: the number of
\* contacts asked of the script is not below the total number of contacts.
C15_LimitZeroMeansAll ==
    (lPc = "done" /\ lLimit = 0) => (lMax >= lTotal /\ lCount = lTotal)

----------------------------------------------------------------------------
(* The pure helper functions, each applied once to an input                 *)

MaxLabelLen == 4

\* label texts: the characters of the sentinels and a letter
LabelChars == {"_", "$", "!", "<", ">", "H"}
Labels == SeqsUpTo(LabelChars, MaxLabelLen)
Wrapped(l) == LabelPrefix \o l \o LabelSuffix

MaxChannelLen == 4

\* channel texts
ChannelChars == {"4", "0", " ", "\t", "a", "-"}
Channels ==
    SeqsUpTo(ChannelChars, MaxChannelLen)
    \cup {<<"4", "0", " ", "(", "5", "G", "H", "z", ",", " ", "8", "0", "M", "H", "z", ")">>,
          <<"+", "6">>, <<"6", "+">>, <<"a", "b", "c">>}

MaxModeLen == 3

\* security mode texts: short texts, alone, after the prefix, after the
\* prefix written twice, and after the prefix without its last character
ModeChars == {"_", "w", "2", "-"}
ModeTails == SeqsUpTo(ModeChars, MaxModeLen)
SecurityModes ==
    ModeTails
    \cup {SecurityModePrefix \o t : t \in ModeTails}
    \cup {SecurityModePrefix \o SecurityModePrefix \o t : t \in ModeTails}
    \cup {SubSeq(SecurityModePrefix, 1, Len(SecurityModePrefix) - 1) \o t : t \in ModeTails}
    \cup {SecurityModePrefix \o <<"w", "p", "a", "2", "_", "p", "e", "r", "s", "o", "n",
                                  "a", "l">>,
          <<"c", "u", "s", "t", "o", "m", "_", "m", "o", "d", "e">>}

\* signal texts: an rssi, "dBm", "/", a noise and "dBm" with white space
\* between them, alone or inside other text, and texts without that pattern
RssiTexts == {[t |-> <<"-", "4", "8">>, v |-> 0 - 48], [t |-> <<"7">>, v |-> 7]}
NoiseTexts == {[t |-> <<"-", "9">>, v |-> 0 - 9], [t |-> <<"0", "3">>, v |-> 3]}
Gaps == {<<>>, <<" ">>}
SignalForm(a, g1, g2, g3, b, g4) ==
    a \o g1 \o DBm \o g2 \o <<"/">> \o g3 \o b \o g4 \o DBm
SignalForms ==
    {SignalForm(a.t, g1, g2, g3, b.t, g4) :
        a \in RssiTexts, b \in NoiseTexts, g1 \in Gaps, g2 \in Gaps, g3 \in Gaps, g4 \in Gaps}
    \cup {SignalForm(<<"7">>, <<"\t", " ">>, <<>>, <<" ", " ">>, <<"-", "9">>, <<"\n">>)}
SignalBefore == {<<>>, <<"x">>, <<"1">>, <<"-">>, <<"3", " ", "d", "B", "m", " ", "/">>}
SignalAfter == {<<>>, <<" ", "y">>}
NoSignalTexts ==
    {<<>>, <<"n", "o", " ", "m", "a", "t", "c", "h">>,
     <<"-", "4", "8", " ", "d", "b", "m", " ", "/", " ", "-", "9", " ", "d", "b", "m">>,
     <<"-", "4", "8", " ", "d", "B", "m", " ", "-", "9", " ", "d", "B", "m">>,
     <<"-", " ", "d", "B", "m", " ", "/", " ", "-", "9", " ", "d", "B", "m">>,
     <<"-", "4", "8", " ", "d", "B", "m", " ", "/", " ", "-", " ", "9", "d", "B">>,
     <<"4", "8", "d", " ", "B", "m", "/", "9", "d", "B", "m">>}
SignalTexts ==
    {x \o f \o y : x \in SignalBefore, f \in SignalForms, y \in SignalAfter}
    \cup NoSignalTexts

MaxNets == 2
MaxIfaces == 2

\* nearby networks: with all its data, without an SSID, without any data but
\* the SSID
NearbyNets ==
    {[name |-> <<"H">>,
      channel |-> <<"1", "1", " ", "(", "2", "G", "H", "z", ")">>,
      security |-> SecurityModePrefix \o <<"w", "p", "a", "2", "_", "p">>,
      signalNoise |-> <<"-", "5", "5", " ", "d", "B", "m", " ", "/", " ", "-", "9", "0",
                        " ", "d", "B", "m">>],
     [name |-> <<>>,
      channel |-> <<"6">>,
      security |-> SecurityModePrefix \o <<"o", "p", "e", "n">>,
      signalNoise |-> <<"-", "7", "d", "B", "m", "/", "-", "9", "d", "B", "m">>],
     [name |-> <<"G">>, channel |-> <<>>, security |-> <<>>, signalNoise |-> <<>>]}
NearbyLists == SeqsUpTo(NearbyNets, MaxNets)
IfaceNames == {En0, <<"e", "n", "1">>}
\* what an interface that is not the one under test has scanned
DecoyNets == <<CHOOSE n \in NearbyNets : n.name = <<"G">>>>
IfaceNameLists == SeqsUpTo(IfaceNames, MaxIfaces)
\* the interfaces named ns, the p-th of which has scanned the networks o
IfaceList(ns, p, o) ==
    [i \in 1..Len(ns) |->
        [name |-> ns[i], status |-> StatusConnected, current |-> [present |-> FALSE],
         others |-> IF i = p THEN o ELSE DecoyNets]]
IfaceLists ==
    {<<>>} \cup UNION {{IfaceList(ns, p, o) : p \in 1..Len(ns), o \in NearbyLists} :
                        ns \in IfaceNameLists}
\* a second entry of SPAirPortDataType, which no function reads
OtherEntry ==
    <<[name |-> En0, status |-> StatusConnected, current |-> [present |-> FALSE],
       others |-> <<CHOOSE n \in NearbyNets : n.name = <<"H">>>>]>>
ProfilerData ==
    {[valid |-> TRUE, entries |-> <<>>]}
    \cup {[valid |-> TRUE, entries |-> <<l>>] : l \in IfaceLists}
    \cup {[valid |-> TRUE, entries |-> <<l, OtherEntry>>] : l \in IfaceLists}
    \cup {[valid |-> FALSE, entries |-> e] : e \in {<<>>, <<OtherEntry>>}}

\* current networks: absent, with all its data, without an SSID
CurrentNets ==
    {[present |-> FALSE],
     [present |-> TRUE,
      net |-> [name |-> <<"H">>, channel |-> <<"3", "6", " ", "(", "5", "G", ")">>,
               security |-> SecurityModePrefix \o <<"o", "p", "e", "n">>,
               signalNoise |-> <<"-", "5", "5", " ", "d", "B", "m", " ", "/", " ", "-",
                                 "9", "0", " ", "d", "B", "m">>,
               rate |-> 144]],
     [present |-> TRUE,
      net |-> [name |-> <<>>, channel |-> <<"6">>, security |-> <<>>,
               signalNoise |-> <<>>, rate |-> 0]]}
IfaceStatuses == {StatusConnected, <<"o", "f", "f">>}
CurrentIfaces ==
    {[name |-> n, status |-> st, current |-> c, others |-> <<>>] :
        n \in IfaceNames, st \in IfaceStatuses, c \in CurrentNets}
CurrentData ==
    {[valid |-> TRUE, entries |-> <<>>]}
    \cup {[valid |-> TRUE, entries |-> <<l>>] : l \in SeqsUpTo(CurrentIfaces, MaxIfaces)}
    \cup {[valid |-> FALSE, entries |-> <<l>>] : l \in SeqsUpTo(CurrentIfaces, 1)}

\* the script of contacts get: "label=value;;;" for every email or phone
RECURSIVE EncodeLabelled(_)
EncodeLabelled(items) ==
    IF items = <<>> THEN <<>>
    ELSE items[1].Label \o <<"=">> \o items[1].Value \o ItemSep
         \o EncodeLabelled(Tail(items))

\* the script of contacts get: "label=street|city|state|zip|country;;;" for
\* every address
RECURSIVE EncodeAddresses(_)
EncodeAddresses(addrs) ==
    IF addrs = <<>> THEN <<>>
    ELSE addrs[1].Label \o <<"=">> \o addrs[1].Street \o <<"|">> \o addrs[1].City
         \o <<"|">> \o addrs[1].State \o <<"|">> \o addrs[1].Zip \o <<"|">>
         \o addrs[1].Country \o ItemSep \o EncodeAddresses(Tail(addrs))

\* the text the script of contacts get returns for the person p
GetScriptOutput(p) ==
    Join(<<p.Name, p.FirstName, p.LastName, p.Company, p.JobTitle, p.Notes,
           p.Birthday, EncodeLabelled(p.Emails), EncodeLabelled(p.Phones),
           EncodeAddresses(p.Addresses)>>, FieldSep)

\* contacts get of the person p: the script, runOsascript, which trims the
\* standard output, and the handler
contactsGet(p) == getHandler(TrimSpace(GetScriptOutput(p) \o <<"\n">>), p.Name)

MaxAddresses == 1

\* persons of the address book whose field values hold none of "|||", ";;;",
\* "=", "|" and no white space at their ends; every component of an address
\* may be empty
AddressParts == {<<>>, <<"s">>}
PersonAddresses ==
    [Label : {<<"h">>}, Street : AddressParts, City : AddressParts, State : AddressParts,
     Zip : AddressParts, Country : AddressParts]
PersonEmails ==
    LET home == [Label |-> Wrapped(<<"H">>), Value |-> <<"e", "@", "x">>]
        work == [Label |-> <<"w">>, Value |-> <<>>]
    IN {<<>>, <<home>>, <<work, home>>}
PersonPhones == {<<>>, <<[Label |-> <<"m">>, Value |-> <<"1", " ", "2">>]>>}
Persons ==
    [Name : {<<"a", " ", "b">>}, FirstName : {<<>>, <<"a">>}, LastName : {<<"b">>},
     Company : {<<>>}, JobTitle : {<<"j">>}, Notes : {<<"n">>}, Birthday : {<<>>},
     Emails : PersonEmails, Phones : PersonPhones,
     Addresses : SeqsUpTo(PersonAddresses, MaxAddresses)]

\* what the script of get, group or create returns: "ERROR: " and the
\* message when an error is raised inside its try block; otherwise the
\* record of the person called name (get), the records of the members of
\* the group, whose first member is called name (group), or the name of the
\* new person (create)
ScriptResult(c, name, err) ==
    IF err.raised THEN ErrorPrefixSp \o err.msg
    ELSE CASE c = "get" ->
                GetScriptOutput([Name |-> name, FirstName |-> <<>>, LastName |-> <<>>,
                                 Company |-> <<>>, JobTitle |-> <<>>, Notes |-> <<>>,
                                 Birthday |-> <<>>, Emails |-> <<>>, Phones |-> <<>>,
                                 Addresses |-> <<>>])
           [] c = "group" ->
                EncodeRecords(<<<<name, <<"e">>, <<>>, <<>>>>,
                                <<<<"b">>, <<>>, <<>>, <<>>>>>>)
           [] c = "create" -> name

\* one run of contacts get, group or create: the script, runOsascript,
\* which trims the standard output, and the handler
contactsRun(run) ==
    LET result == TrimSpace(ScriptResult(run.cmd, run.name, run.err) \o <<"\n">>) IN
    CASE run.cmd = "get" -> getHandler(result, run.name)
      [] run.cmd = "group" -> groupHandler(result, <<"g">>, 0)
      [] run.cmd = "create" -> createHandler(result)

\* names of persons: plain ones and ones that start like an error report
PersonNames ==
    {<<"a">>, <<"E", "R", "R">>, <<"E", "R", "R", "O", "R", ":", " ", "x">>,
     <<"E", "R", "R", "O", "R", ":", "C", "a", "n", "'", "t", " ", "g", "e", "t", " ",
       "p", "e", "r", "s", "o", "n">>}
ContactsRuns ==
    [cmd : {"get", "group", "create"}, name : PersonNames,
     err : {NoScriptErr} \cup {[raised |-> TRUE, msg |-> m] : m \in ScriptErrTexts}]

\* escapeAppleScript with the two replacements in the other order
escapeAppleScriptMut(s) ==
    ReplaceAll(ReplaceAll(s, <<"\"">>, <<"\\", "\"">>), <<"\\">>, <<"\\", "\\">>)

\* escapeAppleScript: backslashes are doubled, then every double quote gets
\* a backslash
escapeAppleScript(s) ==
    ReplaceAll(ReplaceAll(s, <<"\\">>, <<"\\", "\\">>), <<"\"">>, <<"\\", "\"">>)

\* escapeJSString: backslashes are doubled, then the quotes get a backslash
\* and the line feed and carriage return become \n and \r
escapeJSString(s) ==
    LET s1 == ReplaceAll(s, <<"\\">>, <<"\\", "\\">>)
        s2 == ReplaceAll(s1, <<"'">>, <<"\\", "'">>)
        s3 == ReplaceAll(s2, <<"\"">>, <<"\\", "\"">>)
        s4 == ReplaceAll(s3, <<"\n">>, <<"\\", "n">>)
    IN ReplaceAll(s4, <<"\r">>, <<"\\", "r">>)

MaxEscLen == 3

\* texts to escape: the characters the functions replace, and a letter
EscChars == {"\\", "\"", "'", "\n", "\r", "n"}
EscTexts == SeqsUpTo(EscChars, MaxEscLen)

FnNames ==
    {"cleanLabel", "parseChannelNumber", "cleanSecurityMode", "parseSignalNoise",
     "findWiFiInterface", "parseSystemProfilerScan", "parseSystemProfilerCurrent",
     "contactsGet", "contactsRun", "escapeAppleScript", "escapeJSString"}

FnInputs(f) ==
    CASE f = "cleanLabel" -> Labels \cup {Wrapped(l) : l \in Labels}
      [] f = "parseChannelNumber" -> Channels
      [] f = "cleanSecurityMode" -> SecurityModes
      [] f = "parseSignalNoise" -> SignalTexts
      [] f = "findWiFiInterface" -> ProfilerData
      [] f = "parseSystemProfilerScan" -> ProfilerData
      [] f = "parseSystemProfilerCurrent" -> CurrentData
      [] f = "contactsGet" -> Persons
      [] f = "contactsRun" -> ContactsRuns
      [] f = "escapeAppleScript" -> EscTexts
      [] f = "escapeJSString" -> EscTexts

FnInit ==
    /\ BTIdle
    /\ OsaIdle
    /\ PrsIdle
    /\ CmdIdle
    /\ LstIdle
    /\ fnName \in FnNames
    /\ fnArg \in FnInputs(fnName)
    /\ fnRes = <<>>
    /\ fnPc = "call"

CallCleanLabel ==
    /\ fnPc = "call"
    /\ fnName = "cleanLabel"
    /\ fnRes' = cleanLabel(fnArg)
    /\ fnPc' = "done"
    /\ UNCHANGED <<fnName, fnArg>>

CallParseChannelNumber ==
    /\ fnPc = "call"
    /\ fnName = "parseChannelNumber"
    /\ fnRes' = parseChannelNumber(fnArg)
    /\ fnPc' = "done"
    /\ UNCHANGED <<fnName, fnArg>>

CallCleanSecurityMode ==
    /\ fnPc = "call"
    /\ fnName = "cleanSecurityMode"
    /\ fnRes' = cleanSecurityMode(fnArg)
    /\ fnPc' = "done"
    /\ UNCHANGED <<fnName, fnArg>>

CallParseSignalNoise ==
    /\ fnPc = "call"
    /\ fnName = "parseSignalNoise"
    /\ fnRes' = parseSignalNoise(fnArg)
    /\ fnPc' = "done"
    /\ UNCHANGED <<fnName, fnArg>>

CallFindWiFiInterface ==
    /\ fnPc = "call"
    /\ fnName = "findWiFiInterface"
    /\ fnRes' = findWiFiInterface(fnArg)
    /\ fnPc' = "done"
    /\ UNCHANGED <<fnName, fnArg>>

CallParseSystemProfilerScan ==
    /\ fnPc = "call"
    /\ fnName = "parseSystemProfilerScan"
    /\ fnRes' = parseSystemProfilerScan(fnArg)
    /\ fnPc' = "done"
    /\ UNCHANGED <<fnName, fnArg>>

CallParseSystemProfilerCurrent ==
    /\ fnPc = "call"
    /\ fnName = "parseSystemProfilerCurrent"
    /\ fnRes' = parseSystemProfilerCurrent(fnArg)
    /\ fnPc' = "done"
    /\ UNCHANGED <<fnName, fnArg>>

CallContactsGet ==
    /\ fnPc = "call"
    /\ fnName = "contactsGet"
    /\ fnRes' = contactsGet(fnArg)
    /\ fnPc' = "done"
    /\ UNCHANGED <<fnName, fnArg>>

CallContactsRun ==
    /\ fnPc = "call"
    /\ fnName = "contactsRun"
    /\ fnRes' = contactsRun(fnArg)
    /\ fnPc' = "done"
    /\ UNCHANGED <<fnName, fnArg>>

CallEscapeAppleScript ==
    /\ fnPc = "call"
    /\ fnName = "escapeAppleScript"
    /\ fnRes' = escapeAppleScript(fnArg)
    /\ fnPc' = "done"
    /\ UNCHANGED <<fnName, fnArg>>

CallEscapeJSString ==
    /\ fnPc = "call"
    /\ fnName = "escapeJSString"
    /\ fnRes' = escapeJSString(fnArg)
    /\ fnPc' = "done"
    /\ UNCHANGED <<fnName, fnArg>>

FnNext ==
    \/ (CallCleanLabel /\ UNCHANGED notFn)
    \/ (CallFindWiFiInterface /\ UNCHANGED notFn)
    \/ (CallParseSystemProfilerScan /\ UNCHANGED notFn)
    \/ (CallParseSystemProfilerCurrent /\ UNCHANGED notFn)
    \/ (CallContactsGet /\ UNCHANGED notFn)
    \/ (CallContactsRun /\ UNCHANGED notFn)
    \/ (CallEscapeAppleScript /\ UNCHANGED notFn)
    \/ (CallEscapeJSString /\ UNCHANGED notFn)
    \/ (CallParseSignalNoise /\ UNCHANGED notFn)
    \/ (CallCleanSecurityMode /\ UNCHANGED notFn)
    \/ (CallParseChannelNumber /\ UNCHANGED notFn)

SpecFn == FnInit /\ [][FnNext]_vars

Returned(f) == fnPc = "done" /\ fnName = f

\* what stands between the first four and the last four characters of s
LabelInside(s) == SubSeq(s, Len(LabelPrefix) + 1, Len(s) - Len(LabelSuffix))
\* s is "_$!<" L ">!$_" for some text L
IsWrapped(s) ==
    /\ Len(s) >= Len(LabelPrefix) + Len(LabelSuffix)
    /\ s = Wrapped(LabelInside(s))
\* l neither starts with "_$!<" nor ends with ">!$_"
Unmarked(l) == ~HasPrefix(l, LabelPrefix) /\ ~HasSuffix(l, LabelSuffix)

\* C12: for every label L that neither starts with "_$!<" nor ends with
\* ">!$_", cleanLabel of the wrapped label "_$!<" L ">!$_" is L and
\* cleanLabel of L is L.
C12_CleanLabelRoundTrip ==
    Returned("cleanLabel") =>
        /\ Unmarked(fnArg) => fnRes = fnArg
        /\ (IsWrapped(fnArg) /\ Unmarked(LabelInside(fnArg))) =>
               fnRes = LabelInside(fnArg)

\* the wrapped form of "<H_" has been cleaned to "<H_"
C12_Witness ==
    /\ Returned("cleanLabel")
    /\ fnArg = <<"_", "$", "!", "<", "<", "H", "_", ">", "!", "$", "_">>
    /\ fnRes = <<"<", "H", "_">>

\* the text from position i to position j is the first token of s
FirstTokenAt(s, i, j) ==
    /\ i <= j
    /\ \A k \in 1..(i - 1) : IsSpace(s[k])
    /\ \A k \in i..j : ~IsSpace(s[k])
    /\ j = Len(s) \/ IsSpace(s[j + 1])

\* t is a decimal integer: digits after an optional sign
IsDecimal(t) ==
    LET d == IF t[1] \in {"+", "-"} THEN Tail(t) ELSE t IN
    d # <<>> /\ \A k \in 1..Len(d) : IsDigit(d[k])

RECURSIVE DigitsValue(_)
DigitsValue(d) ==
    IF d = <<>> THEN 0
    ELSE 10 * DigitsValue(SubSeq(d, 1, Len(d) - 1)) + DigitVal(d[Len(d)])

DecimalValue(t) ==
    IF t[1] = "-" THEN 0 - DigitsValue(Tail(t))
    ELSE IF t[1] = "+" THEN DigitsValue(Tail(t)) ELSE DigitsValue(t)

\* C16: parseChannelNumber returns the value of the first token delimited
\* by white space when that token is a decimal integer, and 0 when the text
\* is empty or blank or its first token is not an integer.
C16_ChannelNumber ==
    Returned("parseChannelNumber") =>
        /\ (\A k \in 1..Len(fnArg) : IsSpace(fnArg[k])) => fnRes = 0
        /\ \A i, j \in 1..Len(fnArg) :
              FirstTokenAt(fnArg, i, j) =>
                  LET t == SubSeq(fnArg, i, j) IN
                  fnRes = IF IsDecimal(t) THEN DecimalValue(t) ELSE 0

\* "40 (5GHz, 80MHz)" has given 40
C16_Witness ==
    /\ Returned("parseChannelNumber")
    /\ fnArg = <<"4", "0", " ", "(", "5", "G", "H", "z", ",", " ", "8", "0", "M", "H",
                 "z", ")">>
    /\ fnRes = 40

\* a text whose first token, after a tab, is not an integer has given 0
C16_WitnessZero ==
    /\ Returned("parseChannelNumber")
    /\ fnArg = <<"\t", "4", "a", " ">>
    /\ fnRes = 0

\* every underscore of s written as a hyphen
Hyphenated(s) == [k \in 1..Len(s) |-> IF s[k] = "_" THEN "-" ELSE s[k]]

\* C18: cleanSecurityMode removes the prefix "spairport_security_mode_" when
\* the text starts with it and writes every underscore of the remainder as a
\* hyphen; a text without the prefix only has its underscores written as
\* hyphens; the empty text gives the empty text; the result holds no
\* underscore.
C18_SecurityMode ==
    Returned("cleanSecurityMode") =>
        /\ HasPrefix(fnArg, SecurityModePrefix) =>
              fnRes = Hyphenated(SubSeq(fnArg, Len(SecurityModePrefix) + 1, Len(fnArg)))
        /\ ~HasPrefix(fnArg, SecurityModePrefix) => fnRes = Hyphenated(fnArg)
        /\ fnArg = <<>> => fnRes = <<>>
        /\ \A k \in 1..Len(fnRes) : fnRes[k] # "_"

\* "spairport_security_mode_wpa2_personal" has given "wpa2-personal"
C18_Witness ==
    /\ Returned("cleanSecurityMode")
    /\ fnArg = SecurityModePrefix \o <<"w", "p", "a", "2", "_", "p", "e", "r", "s", "o",
                                       "n", "a", "l">>
    /\ fnRes = <<"w", "p", "a", "2", "-", "p", "e", "r", "s", "o", "n", "a", "l">>

\* "custom_mode" has given "custom-mode"
C18_WitnessNoPrefix ==
    /\ Returned("cleanSecurityMode")
    /\ fnArg = <<"c", "u", "s", "t", "o", "m", "_", "m", "o", "d", "e">>
    /\ fnRes = <<"c", "u", "s", "t", "o", "m", "-", "m", "o", "d", "e">>

\* the pattern '<a> dBm / <b> dBm' as an automaton over the characters of a
\* text: state 13 accepts, state 0 - 1 rejects
PatternStep(q, c) ==
    CASE q = 0 -> (IF c = "-" THEN 1 ELSE IF IsDigit(c) THEN 2 ELSE 0 - 1)
      [] q = 1 -> (IF IsDigit(c) THEN 2 ELSE 0 - 1)
      [] q = 2 -> (IF IsDigit(c) THEN 2 ELSE IF IsSpace(c) THEN 3
                   ELSE IF c = "d" THEN 4 ELSE 0 - 1)
      [] q = 3 -> (IF IsSpace(c) THEN 3 ELSE IF c = "d" THEN 4 ELSE 0 - 1)
      [] q = 4 -> (IF c = "B" THEN 5 ELSE 0 - 1)
      [] q = 5 -> (IF c = "m" THEN 6 ELSE 0 - 1)
      [] q = 6 -> (IF IsSpace(c) THEN 6 ELSE IF c = "/" THEN 7 ELSE 0 - 1)
      [] q = 7 -> (IF IsSpace(c) THEN 7 ELSE IF c = "-" THEN 8
                   ELSE IF IsDigit(c) THEN 9 ELSE 0 - 1)
      [] q = 8 -> (IF IsDigit(c) THEN 9 ELSE 0 - 1)
      [] q = 9 -> (IF IsDigit(c) THEN 9 ELSE IF IsSpace(c) THEN 10
                   ELSE IF c = "d" THEN 11 ELSE 0 - 1)
      [] q = 10 -> (IF IsSpace(c) THEN 10 ELSE IF c = "d" THEN 11 ELSE 0 - 1)
      [] q = 11 -> (IF c = "B" THEN 12 ELSE 0 - 1)
      [] q = 12 -> (IF c = "m" THEN 13 ELSE 0 - 1)
      [] OTHER -> 0 - 1

RECURSIVE PatternRun(_, _)
PatternRun(t, q) == IF t = <<>> THEN q ELSE PatternRun(Tail(t), PatternStep(q, Head(t)))

HasSignalPattern(s) ==
    \E i, j \in 1..Len(s) : i <= j /\ PatternRun(SubSeq(s, i, j), 0) = 13

\* C17: for a text of the form '<a> dBm / <b> dBm', with optional white
\* space and optional minus signs, parseSignalNoise returns (a, b); for the
\* empty text and for a text that does not contain the pattern it returns
\* (0, 0).
C17_SignalNoise ==
    Returned("parseSignalNoise") =>
        /\ \A a \in RssiTexts, b \in NoiseTexts :
              \A g1 \in Gaps, g2 \in Gaps, g3 \in Gaps, g4 \in Gaps :
                  fnArg = SignalForm(a.t, g1, g2, g3, b.t, g4) => fnRes = <<a.v, b.v>>
        /\ (fnArg = <<>> \/ ~HasSignalPattern(fnArg)) => fnRes = <<0, 0>>

\* "-48 dBm / -9 dBm" has given (-48, -9)
C17_Witness ==
    /\ Returned("parseSignalNoise")
    /\ fnArg = <<"-", "4", "8", " ", "d", "B", "m", " ", "/", " ", "-", "9", " ", "d", "B",
                 "m">>
    /\ fnRes = <<0 - 48, 0 - 9>>

\* "no match" has given (0, 0)
C17_WitnessNone ==
    /\ Returned("parseSignalNoise")
    /\ fnArg = <<"n", "o", " ", "m", "a", "t", "c", "h">>
    /\ fnRes = <<0, 0>>

\* the interfaces of the first SPAirPortDataType entry of decoded data
FirstEntry(data) ==
    IF data.valid /\ data.entries # <<>> THEN data.entries[1] ELSE <<>>

\* C19: findWiFiInterface returns the interface named "en0" of the first
\* entry whenever there is one, whatever its position, otherwise the first
\* interface, and nil when the data is not valid JSON, has no entry, or the
\* entry has no interface.
C19_FindInterface ==
    Returned("findWiFiInterface") =>
        LET ifaces == FirstEntry(fnArg) IN
        /\ ifaces = <<>> => ~fnRes.found
        /\ (\E i \in 1..Len(ifaces) : ifaces[i].name = En0) =>
              /\ fnRes.found
              /\ fnRes.iface.name = En0
              /\ fnRes.idx \in 1..Len(ifaces)
              /\ fnRes.iface = ifaces[fnRes.idx]
        /\ (ifaces # <<>> /\ \A i \in 1..Len(ifaces) : ifaces[i].name # En0) =>
              /\ fnRes.found
              /\ fnRes.idx = 1
              /\ fnRes.iface = ifaces[1]

\* en0 has been found behind en1
C19_Witness ==
    /\ Returned("findWiFiInterface")
    /\ fnArg.valid
    /\ Len(fnArg.entries) = 1
    /\ Len(fnArg.entries[1]) = 2
    /\ fnArg.entries[1][1].name = <<"e", "n", "1">>
    /\ fnArg.entries[1][2].name = En0
    /\ fnRes.found
    /\ fnRes.idx = 2

\* data that is not valid JSON has given nil
C19_WitnessNil ==
    /\ Returned("findWiFiInterface")
    /\ ~fnArg.valid
    /\ fnArg.entries # <<>>
    /\ ~fnRes.found

\* the interface the scan reads: en0 if the first entry has one, else its
\* first interface
SelectedOthers(data) ==
    LET ifaces == FirstEntry(data) IN
    IF ifaces = <<>> THEN <<>>
    ELSE IF \E i \in 1..Len(ifaces) : ifaces[i].name = En0
    THEN ifaces[CHOOSE i \in 1..Len(ifaces) :
                    ifaces[i].name = En0 /\ \A k \in 1..(i - 1) : ifaces[k].name # En0].others
    ELSE ifaces[1].others

\* C20: parseSystemProfilerScan lists, in input order, exactly the nearby
\* networks of the selected interface whose SSID is not empty, each with its
\* parsed channel, cleaned security mode and RSSI (0 without signal data);
\* the list is empty when the JSON is invalid, no interface is found or the
\* interface lists no nearby network.
C20_ScanNetworks ==
    Returned("parseSystemProfilerScan") =>
        LET named == SelectSeq(SelectedOthers(fnArg), LAMBDA n : n.name # <<>>) IN
        /\ Len(fnRes) = Len(named)
        /\ \A k \in 1..Len(named) :
              /\ fnRes[k].SSID = named[k].name
              /\ fnRes[k].Channel = parseChannelNumber(named[k].channel)
              /\ fnRes[k].Security = cleanSecurityMode(named[k].security)
              /\ fnRes[k].RSSI = parseSignalNoise(named[k].signalNoise)[1]
              /\ named[k].signalNoise = <<>> => fnRes[k].RSSI = 0
        /\ (~fnArg.valid \/ FirstEntry(fnArg) = <<>> \/ SelectedOthers(fnArg) = <<>>)
              => fnRes = <<>>

\* of a network without SSID between two others the scan has kept the others
C20_Witness ==
    /\ Returned("parseSystemProfilerScan")
    /\ fnArg.valid
    /\ Len(fnArg.entries) = 1
    /\ Len(fnArg.entries[1]) = 2
    /\ fnArg.entries[1][2].name = En0
    /\ Len(fnArg.entries[1][2].others) = 2
    /\ fnArg.entries[1][2].others[1].name = <<>>
    /\ fnArg.entries[1][2].others[2].name = <<"H">>
    /\ fnRes = <<[SSID |-> <<"H">>, Channel |-> 11, RSSI |-> 0 - 55,
                  Security |-> <<"w", "p", "a", "2", "-", "p">>]>>

\* the interfaces parseSystemProfilerCurrent reads: the first one named en0
\* of the first entry, or the first interface when none is named en0
SelectedIfaces(data) ==
    LET ifaces == FirstEntry(data) IN
    {ifaces[i] : i \in {k \in 1..Len(ifaces) :
                            \/ /\ ifaces[k].name = En0
                               /\ \A j \in 1..(k - 1) : ifaces[j].name # En0
                            \/ /\ k = 1
                               /\ \A j \in 1..Len(ifaces) : ifaces[j].name # En0}}

\* C21: parseSystemProfilerCurrent gives Connected exactly when the selected
\* interface has status "spairport_status_connected", has a current network
\* and that network has a name; with no interface, another status or no
\* current network every field of the result has its zero value.
C21_CurrentConnection ==
    Returned("parseSystemProfilerCurrent") =>
        LET sel == SelectedIfaces(fnArg) IN
        /\ fnRes.Connected <=>
              \E f \in sel : /\ f.status = StatusConnected
                             /\ f.current.present
                             /\ f.current.net.name # <<>>
        /\ (\/ sel = {}
            \/ \E f \in sel : f.status # StatusConnected \/ ~f.current.present) =>
              fnRes = NoConnection

\* en0 behind en1 is connected to "H"
C21_Witness ==
    /\ Returned("parseSystemProfilerCurrent")
    /\ fnArg.valid
    /\ Len(fnArg.entries) = 1
    /\ Len(fnArg.entries[1]) = 2
    /\ fnArg.entries[1][1].name # En0
    /\ fnArg.entries[1][2].name = En0
    /\ fnRes.Connected
    /\ fnRes.SSID = <<"H">>

\* an interface that is not connected but has a current network
C21_WitnessOff ==
    /\ Returned("parseSystemProfilerCurrent")
    /\ fnArg.valid
    /\ Len(fnArg.entries) = 1
    /\ Len(fnArg.entries[1]) = 1
    /\ fnArg.entries[1][1].status # StatusConnected
    /\ fnArg.entries[1][1].current.present
    /\ fnRes = NoConnection

\* timezone-by-IP has got a response from the server
TimezoneAnswered == HttpAnswered /\ cmd = "timezone_ip"

\* the whole body is one JSON value, with white space at most behind it
ValidJSON(body) == body.json /\ TrimSpace(body.rest) = <<>>

\* the outcomes of fetchTimezoneByIP that do not depend on the body
TimezoneStatusOutcomes ==
    /\ resp.status = 404 => cOut.kind = "not_found"
    /\ (resp.status >= 400 /\ resp.status # 404) => cOut.kind = "fetch_failed"
    /\ resp.status >= 400 => ~decoded
    /\ cOut.kind = "ok" => (decoded /\ resp.body.json)

\* C22 as stated: fetchTimezoneByIP reports an error and prints no time
\* information for a status 404 (not_found), for any other status of 400 or
\* more (fetch_failed) and for a 2xx body that is not valid JSON
\* (parse_failed); the status is checked before the body is decoded; a
\* result is printed only from a decoded body.
C22_Original ==
    TimezoneAnswered =>
        /\ TimezoneStatusOutcomes
        /\ (resp.status \in 200..299 /\ ~ValidJSON(resp.body)) =>
              cOut.kind = "parse_failed"

\* C22 (amended): as C22, but parse_failed is reported for a 2xx body from
\* which no first JSON value can be decoded; what follows the first JSON
\* value of the body is not examined.
C22_TimezoneErrors ==
    TimezoneAnswered =>
        /\ TimezoneStatusOutcomes
        /\ (resp.status \in 200..299 /\ ~resp.body.json) =>
              cOut = PrintError("parse_failed", JsonSyntaxErr)
        /\ (resp.status \in 200..299 /\ resp.body.json) => cOut.kind = "ok"

\* a 200 answer whose body is not JSON has been reported as parse_failed
C22_Witness ==
    /\ TimezoneAnswered
    /\ resp.status = 200
    /\ ~resp.body.json
    /\ decoded
    /\ cOut.kind = "parse_failed"

\* a 200 answer with other bytes behind its JSON value has been printed
C22_WitnessRest ==
    /\ TimezoneAnswered
    /\ resp.status = 200
    /\ resp.body.json
    /\ resp.body.rest = <<"x">>
    /\ cOut.kind = "ok"

\* C23: for the empty candidate list bestTranslation returns the empty text
\* with score 0 and reads no element of the list (a read of an element of an
\* empty list would end the call with a panic instead of a result).
C23_EmptyCandidates ==
    (btPc \in {"done", "panic"} /\ matches = <<>>) =>
        /\ btPc = "done"
        /\ btText = <<>>
        /\ btScore = 0

\* the call on the empty list has returned
C23_Witness ==
    /\ btPc = "done"
    /\ Len(matches) = 0
    /\ btText = <<>>
    /\ btScore = 0

\* the label the parsed contact shows for the label l of the address book
ShownLabel(l) == IF IsWrapped(l) THEN LabelInside(l) ELSE l

\* the parsed emails or phones are the emitted ones, in order
SameLabelled(parsed, emitted) ==
    /\ Len(parsed) = Len(emitted)
    /\ \A i \in 1..Len(emitted) :
          /\ parsed[i].Label = ShownLabel(emitted[i].Label)
          /\ parsed[i].Value = emitted[i].Value

\* the parsed addresses are the emitted ones, in order
SameAddresses(parsed, emitted) ==
    /\ Len(parsed) = Len(emitted)
    /\ \A i \in 1..Len(emitted) :
          /\ parsed[i].Label = ShownLabel(emitted[i].Label)
          /\ parsed[i].Street = emitted[i].Street
          /\ parsed[i].City = emitted[i].City
          /\ parsed[i].State = emitted[i].State
          /\ parsed[i].Zip = emitted[i].Zip
          /\ parsed[i].Country = emitted[i].Country

\* C24: for every contact whose field values hold no separator token,
\* contacts get recovers the contact from the flattened output of the
\* script: the seven scalar fields are intact and the emails, phones and
\* addresses are the emitted ones, in order and with the same values, also
\* when any of the five components of an address are empty.
C24_GetRoundTrip ==
    Returned("contactsGet") =>
        /\ fnRes.kind = "ok"
        /\ fnRes.contact.Name = fnArg.Name
        /\ fnRes.contact.FirstName = fnArg.FirstName
        /\ fnRes.contact.LastName = fnArg.LastName
        /\ fnRes.contact.Company = fnArg.Company
        /\ fnRes.contact.JobTitle = fnArg.JobTitle
        /\ fnRes.contact.Notes = fnArg.Notes
        /\ fnRes.contact.Birthday = fnArg.Birthday
        /\ SameLabelled(fnRes.contact.Emails, fnArg.Emails)
        /\ SameLabelled(fnRes.contact.Phones, fnArg.Phones)
        /\ SameAddresses(fnRes.contact.Addresses, fnArg.Addresses)

\* the kinds with which get, group and create report a failure of the script
ScriptFailureKinds ==
    {"get_failed", "group_failed", "create_failed", "contact_not_found",
     "group_not_found"}

\* C25: contacts get, group and create report a script-level failure only
\* when the error handler of the script produced the output; the output of
\* the successful path of the script, which starts with the name of the
\* contact or new person, is never reported as get_failed, group_failed,
\* create_failed or as not found.
C25_FailureOnlyFromHandler ==
    Returned("contactsRun") =>
        (fnRes.kind \in ScriptFailureKinds => fnArg.err.raised)

\* the child of the call has ended on its own, with a failure, before the
\* deadline
OwnFailureReturned ==
    /\ osaPc = "done"
    /\ runFailed
    /\ ~killed
    /\ runErr = ExitStatusErr

\* C26: when the child process ends on its own with a failure before the
\* deadline fires, runOsascript returns the script-level error text and never
\* the "timed out" message, wherever the deadline timer fires between the
\* return of cmd.Run and the classification of the failure.
C26_OwnFailureNotTimeout ==
    OwnFailureReturned =>
        /\ osaErr # TimedOutMsg
        /\ stderrBuf # <<>> => osaErr = TrimSpace(stderrBuf)
        /\ stderrBuf = <<>> => osaErr = runErr

\* the candidates the heuristic may choose: among those of the highest
\* score, the first of those whose text is the most frequent
ChosenIdx(ms) ==
    {i \in MaxIdx(ms) :
        /\ \A j \in MaxIdx(ms) : FoldCount(ms, j) <= FoldCount(ms, i)
        /\ \A j \in MaxIdx(ms) : FoldCount(ms, j) = FoldCount(ms, i) => i <= j}

\* translate text has printed a translation
TranslationPrinted == HttpAnswered /\ cmd = "translate_text" /\ cOut.kind = "ok"

\* C27: whenever the response has at least one entry in matches, translate
\* text prints the text and the score the best-translation heuristic chooses
\* among all matches, not those of responseData; responseData is used only
\* when matches is empty.
C27_BestOfMatches ==
    TranslationPrinted =>
        LET ms == resp.body.matches IN
        /\ Len(ms) >= 1 =>
              \E i \in ChosenIdx(ms) :
                  /\ cOut.translated_text = ms[i].Translation
                  /\ cOut.match = ms[i].Match
        /\ Len(ms) = 0 =>
              /\ cOut.translated_text = resp.body.translatedText
              /\ cOut.match = resp.body.match

\* sign, HH and MM of an offset of s seconds
SignedHHMM(s) ==
    LET a == IF s < 0 THEN 0 - s ELSE s IN
    (IF s < 0 THEN <<"-">> ELSE <<"+">>)
    \o Pad2(a \div 3600) \o <<":">> \o Pad2((a % 3600) \div 60)

\* C28: for every offset of s seconds the printed utc_offset is the sign and
\* HH:MM, where the sign is "-" exactly when s < 0, HH is |s| div 3600 and MM
\* is (|s| mod 3600) div 60, also for -3600 < s < 0.
C28_UtcOffset ==
    (TimezoneAnswered /\ cOut.kind = "ok") =>
        cOut.utc_offset = SignedHHMM(resp.body.seconds)

\* the number of backslashes that stand immediately before position i of s
RECURSIVE BackslashesBefore(_, _)
BackslashesBefore(s, i) ==
    IF i > 1 /\ s[i - 1] = "\\" THEN 1 + BackslashesBefore(s, i - 1) ELSE 0

\* the character an escape sequence \c of a string literal stands for
Unescaped(c) ==
    CASE c = "n" -> "\n"
      [] c = "r" -> "\r"
      [] OTHER -> c

\* the text a string literal with the body s denotes, read from position i;
\* a backslash at the very end denotes nothing
RECURSIVE LiteralValue(_, _)
LiteralValue(s, i) ==
    IF i > Len(s) THEN <<>>
    ELSE IF s[i] = "\\"
    THEN IF i = Len(s) THEN <<>>
         ELSE <<Unescaped(s[i + 1])>> \o LiteralValue(s, i + 2)
    ELSE <<s[i]>> \o LiteralValue(s, i + 1)

\* the quote that delimits the literal the escaped text is placed in
Delimiter(f) == IF f = "escapeJSString" THEN "'" ELSE "\""

Escaped == Returned("escapeAppleScript") \/ Returned("escapeJSString")

\* C29: the text escapeAppleScript or escapeJSString returns cannot end the
\* string literal it is placed in: every delimiter quote in it has an odd
\* number of backslashes before it, it does not end in an unpaired
\* backslash, the text of escapeJSString holds no raw line feed or carriage
\* return, and the text un-escaped is the input.
C29_EscapedLiteral ==
    Escaped =>
        /\ \A i \in 1..Len(fnRes) :
              fnRes[i] = Delimiter(fnName) => BackslashesBefore(fnRes, i) % 2 = 1
        /\ BackslashesBefore(fnRes, Len(fnRes) + 1) % 2 = 0
        /\ fnName = "escapeJSString" =>
              \A i \in 1..Len(fnRes) : fnRes[i] \notin {"\n", "\r"}
        /\ LiteralValue(fnRes, 1) = fnArg

\* a backslash before a double quote has been escaped for AppleScript
C29_Witness ==
    /\ Returned("escapeAppleScript")
    /\ fnArg = <<"\\", "\"">>
    /\ fnRes = <<"\\", "\\", "\\", "\"">>

\* a quote and a line feed have been escaped for JavaScript
C29_WitnessJS ==
    /\ Returned("escapeJSString")
    /\ fnArg = <<"'", "\n", "\\">>
    /\ fnRes = <<"\\", "'", "\\", "n", "\\", "\\">>

\* contacts group has parsed the output of the successful path of the script
GroupParsed == pPc = "done" /\ pCmd = "group" /\ ~pErr.raised

\* C30: with limit L > 0 contacts group returns exactly the first min(L, k)
\* of the k well-formed records (at least 4 fields) of the script output, in
\* their original order; malformed records are skipped and do not count
\* toward L; with L <= 0 all k are returned; the printed count is the number
\* of contacts returned.
C30_GroupLimit ==
    GroupParsed =>
        LET k == WellFormed(pRecs, 4)
            n == IF pLimit > 0 THEN MathMin(pLimit, Len(k)) ELSE Len(k)
        IN /\ pOut.kind = "ok"
           /\ Len(pOut.contacts) = n
           /\ \A i \in 1..n :
                 /\ pOut.contacts[i].Name = TrimSpace(k[i][1])
                 /\ pOut.contacts[i].Email = TrimSpace(k[i][2])
                 /\ pOut.contacts[i].Phone = TrimSpace(k[i][3])
                 /\ pOut.contacts[i].Company = TrimSpace(k[i][4])
           /\ pOut.count = Len(pOut.contacts)

\* limit 2: a malformed record first, and the two well-formed records behind
\* it are both returned
C30_Witness ==
    /\ GroupParsed
    /\ pLimit = 2
    /\ Len(pRecs) = 3
    /\ Len(pRecs[1]) = 3 /\ Len(pRecs[2]) = 4 /\ Len(pRecs[3]) = 5
    /\ Len(pOut.contacts) = 2
    /\ pOut.count = 2

\* limit 1 cuts the result, and a negative limit does not
C30_WitnessCut ==
    /\ GroupParsed
    /\ pLimit = 1
    /\ Len(WellFormed(pRecs, 4)) = 2
    /\ Len(pOut.contacts) = 1

C30_WitnessNegative ==
    /\ GroupParsed
    /\ pLimit = -1
    /\ Len(WellFormed(pRecs, 4)) = 3
    /\ pOut.count = 3

====
